---- MODULE Spec2Model ----
(***************************************************************************)
(* Process lifecycle coordination of UnityHubCli: process discovery        *)
(* (MacUnityProcessReader / WinUnityProcessReader), launch admission       *)
(* (UnityLockChecker.check), staged termination (MacUnityProcessTerminator *)
(* / WinUnityProcessTerminator) and the terminate use case with its        *)
(* post-termination Temp cleanup (TerminateProjectUseCase.execute).        *)
(*                                                                         *)
(* One operation is in flight at a time; every await of the code is a      *)
(* step boundary, and the operating system (process exit) moves between    *)
(* steps.                                                                  *)
(***************************************************************************)
EXTENDS Integers, Sequences, FiniteSets, TLC

\* ------------------------------------------------------------------ bounds
\* number of pids of the modelled OS process table
NumPids == 2
\* a delay(d) lasts d * (1 + k) for some k in 0..MaxOverrun (timers fire late)
MaxOverrun == 1
\* longest list of extra command-line arguments of a project
MaxExtraArgs == 2
\* length of the shell config file before the first install, in lines
MaxRcLen == 2
\* runs of --shell-init on one shell config file
MaxInstalls == 3
\* preference writes in flight on config.json at the same time
MaxWrites == 2
\* App: lifecycle callbacks awaiting their use case at the same time
MaxAppOps == 1
\* longest cliArgs string of the settings source, in characters
MaxCliLen == 5
\* most words of a well-formed cliArgs string, and longest content of a word
MaxWords == 2
MaxWordLen == 2
\* most calls of clean in a row on one project
MaxCleanCalls == 2
\* most calls of one UI callback on one project awaiting at a time
MaxInFlight == 2

\* ------------------------------------------------------- program constants
TERMINATE_TIMEOUT_MILLIS == 5000
TERMINATE_POLL_INTERVAL_MILLIS == 200
GRACEFUL_QUIT_TIMEOUT_MILLIS == 3000
GRACEFUL_QUIT_POLL_INTERVAL_MILLIS == 200

\* --------------------------------------------------------------- universe
Platforms == {"darwin", "linux", "win32"}
Pids == 1..NumPids
NoPid == 0
Dirs == {"A", "B"}

\* A path is a directory name written in some letter case, with or without a
\* trailing separator.
Paths == [dir : Dirs, upper : BOOLEAN, slash : BOOLEAN]
PlainPath(d) == [dir |-> d, upper |-> FALSE, slash |-> FALSE]
NoPath == PlainPath("none")
\* UnityProject.path of the registry's projects
ProjectPaths == {PlainPath("A"), [dir |-> "B", upper |-> FALSE, slash |-> TRUE]}

\* A command line: the executable, the -batchmode flag, the AssetImportWorker
\* marker, and the -projectPath argument (absent, bare or quoted) with its value.
Cmd(exe, batch, worker, quote, path) ==
    [exe |-> exe, batch |-> batch, worker |-> worker, quote |-> quote, path |-> path]
NoProc == Cmd("none", FALSE, FALSE, "absent", PlainPath("A"))
CmdLines ==
    { Cmd("unity", FALSE, FALSE, "bare", PlainPath("A")),
      Cmd("unity", FALSE, FALSE, "dq", [dir |-> "B", upper |-> TRUE, slash |-> TRUE]),
      Cmd("unity", TRUE, TRUE, "bare", PlainPath("A")),
      Cmd("other", FALSE, FALSE, "sq", PlainPath("A")),
      Cmd("unity", FALSE, FALSE, "absent", PlainPath("B")) }

Stages == {"graceful", "sigterm", "sigkill"}
NoTermination == [state |-> "none", terminated |-> FALSE, stage |-> "none"]
Returned(t, s) == [state |-> "returned", terminated |-> t, stage |-> s]
Raised == [state |-> "raised", terminated |-> FALSE, stage |-> "none"]
NoResult == [state |-> "none", terminated |-> FALSE, message |-> "none"]

\* one element of an argv: a literal token, or a project path
Arg(tok) == [tok |-> tok, path |-> NoPath]
PathArg(p) == [tok |-> "<path>", path |-> p]
NoCandidate == [root |-> [base |-> "none", hub |-> FALSE], version |-> "none"]
NoResolution == [state |-> "none", path |-> NoCandidate, probed |-> <<>>, named |-> <<>>]
NoSpawn == [command |-> "none", args |-> <<>>, detached |-> FALSE, pid |-> NoPid]
NoView == [found |-> NoPid, hasRunningProcess |-> FALSE, isLocked |-> FALSE,
           launchStatus |-> "none"]
NoViews == [d \in Dirs |-> NoView]
NoCleaner == [dir |-> "none", calls |-> 0, start |-> <<FALSE, FALSE>>,
              before |-> <<FALSE, FALSE>>, failed |-> FALSE, result |-> "none"]
NoWords == [wellFormed |-> FALSE, words |-> <<>>]
NoCli == [src |-> [kind |-> "none", text |-> <<>>], from |-> NoWords, state |-> "none",
          args |-> <<>>]
NoGitBash == [called |-> FALSE, platform |-> "none", MSYSTEM |-> "<unset>", SHELL |-> "<unset>",
              answer |-> FALSE]
NoEditor == [state |-> "none", status |-> "none", threw |-> FALSE,
             unityLaunched |-> FALSE, editorLaunched |-> FALSE]
NoListing == [state |-> "none", registry |-> <<>>, git |-> <<>>, query |-> <<>>, views |-> <<>>]
NoLast == [kind |-> "none", id |-> "none", outcome |-> "none", changed |-> FALSE, prev |-> "none"]
NoApp == [state |-> "none", outputPathOnExit |-> FALSE, rows |-> 0, projectViews |-> <<>>,
          sort |-> [favoritesFirst |-> TRUE, primary |-> "updated", direction |-> "desc"],
          directionManuallyChanged |-> FALSE,
          visibility |-> [showBranch |-> TRUE, showPath |-> TRUE],
          menu |-> "none", sortMenuIndex |-> 0, hint |-> "default", visibleCount |-> 0,
          index |-> 0, windowStart |-> 0, launched |-> {}, released |-> {},
          isRefreshing |-> FALSE, pending |-> <<>>, last |-> NoLast]
NoConfig == [file |-> [sort |-> 0, visibility |-> 0], writes |-> <<>>,
             last |-> [which |-> "none", before |-> [sort |-> 0, visibility |-> 0]]]
NoShellRc == [state |-> "none", content |-> <<>>, user |-> <<>>, installs |-> 0,
              last |-> [message |-> "none", wrote |-> FALSE, before |-> <<>>, script |-> "none"]]
\* the App callbacks that await a lifecycle use case
UiHandlers == {"launchSelected", "launchSelectedWithEditor", "terminateSelected"}

VARIABLES
    platform,     \* process.platform
    ptable,       \* OS process table: pid -> command line or NoProc
    foreign,      \* pids this user may not signal (kill answers EPERM)
    lock,         \* project dir -> Temp/UnityLockfile exists
    temp,         \* project dir -> Temp directory exists
    pc,           \* position of the operation in flight
    op,           \* "none" | "check" | "terminate"
    proj,         \* the project path the operation is about
    hasLockfile,  \* "none" | "yes" | "no": what pathExists(lockfilePath) answered
    found,        \* pid of the process findByProjectPath returned, or NoPid
    query,        \* how the process listing of this operation went
    decision,     \* what check returned: "none" | "allow" | "skip" | "raised"
    termination,  \* what terminate returned
    result,       \* what TerminateProjectUseCase.execute returned
    trace,        \* side-effect calls issued by the operation, in order
    now,          \* Date.now(), relative to the start of the operation
    deadline,     \* deadline of the stage wait in progress
    attemptedGraceful,
    goneAtStart,  \* "unset" | "gone" | "alive": the pid when terminate was called
    polls,        \* stage -> "none" | "alive" | "dead" | "throw": its liveness polls
    sent,         \* stage action -> "none" | "ok" | "ESRCH" | "EPERM" | "failed": its answer
    errlog,       \* best-effort failures written to console.error
    swallowed,    \* failures caught and dropped without a trace
    launch,       \* LaunchProjectUseCase.execute: "none" | "check" | "run" |
                  \* "cancelled" | "raised" | "done"
    resolved,     \* what editorPathResolver.resolve did
    extraArgs,    \* what readCliArgs returned
    spawnCall,    \* the spawn() the launcher issued
    spawned,      \* live pids the launcher spawned
    prior,        \* project dir the preceding check recovered from a crash, or "none"
    views,        \* what ListProjectsUseCase.execute returned
    cleaner,      \* direct calls of UnityTempDirectoryCleaner.clean
    uiIndex,      \* App: index of the selected row
    uiMenu,       \* App: "none" | "sort" | "visibility"
    uiOps,        \* App: <<handler, project dir>> -> calls of it still awaiting
    cli,          \* a direct call of readCliArgs: its settings source and outcome
    gitBash,      \* a direct call of isGitBashEnvironment: process.env and answer
    editor,       \* LaunchWithEditorUseCase.execute: the external editor's part
    listing,      \* a direct call of ListProjectsUseCase.execute: its inputs and outcome
    app,          \* App: the React state of the list UI, its awaited calls, its last action
    config,       \* config.json, and the preference writes in flight on it
    shellrc       \* the shell config file, and what the last installShellInit did to it

vars == <<platform, ptable, foreign, lock, temp, pc, op, proj, hasLockfile, found, query,
          decision, termination, result, trace, now, deadline,
          attemptedGraceful, goneAtStart, polls, sent, errlog,
          swallowed, launch, resolved, extraArgs, spawnCall, spawned, prior, views,
          cleaner, uiIndex, uiMenu, uiOps, cli, gitBash, editor,
          listing,
          app,
          config,
          shellrc>>

launchVars == <<launch, resolved, extraArgs, spawnCall>>
uiVars == <<uiIndex, uiMenu, uiOps>>
utilVars == <<cli, gitBash, editor, listing, app, config, shellrc>>
extVarsButSwallowed == <<launchVars, spawned, prior, views, cleaner, uiVars, utilVars>>
extVarsButSpawned == <<swallowed, launchVars, prior, views, cleaner, uiVars, utilVars>>
extVars == <<swallowed, launchVars, spawned, prior, views, cleaner, uiVars, utilVars>>

envVars == <<platform, ptable, foreign, lock, temp>>

NoPolls == [s \in Stages |-> "none"]
NoneSent == [s \in {"quit", "sigterm", "sigkill"} |-> "none"]

\* ------------------------------------------------------ path comparison
\* resolve() drops a trailing separator
NormalizePath(p) == [p EXCEPT !.slash = FALSE]

\* localeCompare with sensitivity 'base': letter case is ignored
ArePathsEqual(l, r) ==
    LET nl == NormalizePath(l)
        nr == NormalizePath(r)
    IN  nl.dir = nr.dir /\ nl.slash = nr.slash

\* PROJECT_PATH_PATTERN and the quote stripping; "none" when there is no argument
ExtractProjectPath(cmd) ==
    IF cmd.quote = "absent" THEN NoPath ELSE cmd.path

IsUnityMainProcess(cmd) == cmd.exe = "unity"

IsUnityAuxiliaryProcess(cmd) == cmd.batch \/ cmd.worker


\* ------------------------------------------------------- process listing
Alive(pid) == pid \in Pids /\ ptable[pid] # NoProc

RECURSIVE SeqOfPids(_, _)
\* the pids of S in increasing order, starting at pid n
SeqOfPids(S, n) ==
    IF n > NumPids THEN <<>>
    ELSE (IF n \in S THEN <<n>> ELSE <<>>) \o SeqOfPids(S, n + 1)

\* stdout of `ps -axo pid=,command= -ww`: one line per process; a line of an
\* uninterpretable output does not have the form "<digits> <command>"
PsStdout(q) ==
    LET ps == SeqOfPids({pid \in Pids : Alive(pid)}, 1)
        lines == [i \in 1..Len(ps) |->
                    [junk |-> (q = "garbled"), pid |-> ps[i], cmd |-> ptable[ps[i]]]]
    IN  IF q = "garbled"
        THEN <<[junk |-> TRUE, pid |-> NoPid, cmd |-> NoProc]>> \o lines
        ELSE lines

\* stdout of the PowerShell query: Get-CimInstance lists the Unity.exe
\* processes, ConvertTo-Json prints nothing for none, an object for one and an
\* array for several; an uninterpretable output is text that is not JSON
PowershellStdout(q) ==
    LET ps == SeqOfPids({pid \in Pids : Alive(pid) /\ ptable[pid].exe = "unity"}, 1)
        rows == [i \in 1..Len(ps) |-> [ProcessId |-> ps[i], CommandLine |-> ptable[ps[i]]]]
    IN  IF q = "garbled" THEN [kind |-> "text", rows |-> <<>>]
        ELSE IF Len(rows) = 0 THEN [kind |-> "empty", rows |-> <<>>]
        ELSE IF Len(rows) = 1 THEN [kind |-> "object", rows |-> rows]
        ELSE [kind |-> "array", rows |-> rows]

\* JSON.parse throws on the empty string and on text that is not JSON: caught
parsePowershellJson(stdout) ==
    IF stdout.kind \in {"text", "empty"} THEN <<>> ELSE stdout.rows

RECURSIVE MacRows(_)
MacRows(lines) ==
    IF lines = <<>> THEN <<>>
    ELSE LET line == Head(lines)
             keep == /\ ~line.junk
                     /\ IsUnityMainProcess(line.cmd)
                     /\ ~IsUnityAuxiliaryProcess(line.cmd)
                     /\ ExtractProjectPath(line.cmd) # NoPath
         IN  (IF keep
              THEN <<[pid |-> line.pid,
                      projectPath |-> NormalizePath(ExtractProjectPath(line.cmd))]>>
              ELSE <<>>) \o MacRows(Tail(lines))

RECURSIVE WinRows(_)
WinRows(rows) ==
    IF rows = <<>> THEN <<>>
    ELSE LET row == Head(rows)
             keep == ExtractProjectPath(row.CommandLine) # NoPath
         IN  (IF keep
              THEN <<[pid |-> row.ProcessId,
                      projectPath |-> NormalizePath(ExtractProjectPath(row.CommandLine))]>>
              ELSE <<>>) \o WinRows(Tail(rows))

\* the listing command itself failing is rethrown as an Error
MacListUnityProcesses(q) ==
    IF q = "error" THEN [raised |-> TRUE, list |-> <<>>]
    ELSE [raised |-> FALSE, list |-> MacRows(PsStdout(q))]

WinListUnityProcesses(q) ==
    IF q = "error" THEN [raised |-> TRUE, list |-> <<>>]
    ELSE [raised |-> FALSE, list |-> WinRows(parsePowershellJson(PowershellStdout(q)))]

listUnityProcesses(q) ==
    IF platform = "win32" THEN WinListUnityProcesses(q) ELSE MacListUnityProcesses(q)

RECURSIVE FirstMatch(_, _)
\* Array.prototype.find
FirstMatch(list, target) ==
    IF list = <<>> THEN NoPid
    ELSE IF ArePathsEqual(Head(list).projectPath, target) THEN Head(list).pid
    ELSE FirstMatch(Tail(list), target)

\* findByProjectPath: the pid found, NoPid for undefined, or raised
findByProjectPath(p, q) ==
    LET listed == listUnityProcesses(q)
    IN  IF listed.raised THEN [raised |-> TRUE, pid |-> NoPid]
        ELSE [raised |-> FALSE, pid |-> FirstMatch(listed.list, NormalizePath(p))]

QueryOutcomes == {"ok", "error", "garbled"}

\* ---------------------------------------------------------- signals, probes
\* process.kill(pid, signal): the errno it answers with
Kill(pid) ==
    IF ~Alive(pid) THEN "ESRCH"
    ELSE IF pid \in foreign THEN "EPERM"
    ELSE "ok"

isProcessMissingError(errno) == errno = "ESRCH"

\* unityProcess.ts: true, false, or the error rethrown
MacEnsureProcessAlive(pid) ==
    LET errno == Kill(pid)
    IN  IF errno = "ok" THEN "alive"
        ELSE IF isProcessMissingError(errno) THEN "dead"
        ELSE "throw"

\* unityProcess.win.ts: every error answers false
WinEnsureProcessAlive(pid) ==
    LET errno == Kill(pid)
    IN  IF errno = "ok" THEN "alive"
        ELSE IF isProcessMissingError(errno) THEN "dead"
        ELSE "dead"

Call(name, arg) == [call |-> name, arg |-> arg]

\* a delay during which Date.now() does not advance
Delays_NoTime(duration) == {0}

\* delay(duration): the timer fires after duration, or late
Delays(duration) == {duration * (1 + k) : k \in 0..MaxOverrun}

\* ------------------------------------------------------------------ Init
Init ==
    /\ platform \in Platforms
    /\ ptable \in [Pids -> CmdLines \cup {NoProc}]
    /\ foreign \in {{}, {1}}
    /\ temp \in [Dirs -> BOOLEAN]
    /\ lock \in {l \in [Dirs -> BOOLEAN] : \A d \in Dirs : l[d] => temp[d]}
    /\ pc = "idle"
    /\ op = "none"
    /\ proj = PlainPath("A")
    /\ found = NoPid
    /\ hasLockfile = "none"
    /\ query = "none"
    /\ decision = "none"
    /\ termination = NoTermination
    /\ result = NoResult
    /\ trace = <<>>
    /\ now = 0
    /\ deadline = 0
    /\ attemptedGraceful = FALSE
    /\ goneAtStart = "unset"
    /\ polls = NoPolls
    /\ sent = NoneSent
    /\ errlog = {}
    /\ swallowed = {}
    /\ launch = "none"
    /\ resolved = NoResolution
    /\ extraArgs = <<>>
    /\ spawnCall = NoSpawn
    /\ spawned = {}
    /\ prior = "none"
    /\ views = NoViews
    /\ cleaner = NoCleaner
    /\ uiIndex = 0
    /\ uiMenu = "none"
    /\ uiOps = [h \in UiHandlers \X Dirs |-> 0]
    /\ cli = NoCli
    /\ gitBash = NoGitBash
    /\ editor = NoEditor
    /\ listing = NoListing
    /\ app = NoApp
    /\ config = NoConfig
    /\ shellrc = NoShellRc

\* the check that has just returned took the crash branch and both deletions
\* went through
CrashRecovered ==
    /\ op = "check"
    /\ hasLockfile = "yes"
    /\ decision = "allow"
    /\ "clean" \notin swallowed
    /\ "rmLock" \notin errlog

\* the operation in flight starts from a clean slate; e is the external
\* editor's part when LaunchWithEditorUseCase starts the launch
BeginWith(o, p, e) ==
    /\ pc = "idle"
    /\ op' = o
    /\ proj' = p
    /\ found' = NoPid
    /\ hasLockfile' = "none"
    /\ query' = "none"
    /\ decision' = "none"
    /\ termination' = NoTermination
    /\ result' = NoResult
    /\ trace' = <<>>
    /\ now' = 0
    /\ deadline' = 0
    /\ attemptedGraceful' = FALSE
    /\ goneAtStart' = "unset"
    /\ polls' = NoPolls
    /\ sent' = NoneSent
    /\ errlog' = {}
    /\ swallowed' = {}
    /\ launch' = IF o = "launch" THEN "check" ELSE "none"
    /\ resolved' = NoResolution
    /\ extraArgs' = <<>>
    /\ spawnCall' = NoSpawn
    /\ prior' = IF o = "check" /\ CrashRecovered THEN proj.dir ELSE "none"
    /\ views' = NoViews
    /\ editor' = e
    /\ UNCHANGED <<envVars, spawned, cleaner, uiVars, cli, gitBash,
                   listing,
                   app,
                   config,
                   shellrc>>

\* an operation started by itself
Begin(o, p) == BeginWith(o, p, NoEditor)

opVars == <<op, proj, hasLockfile>>
termVars == <<termination, result, now, deadline, attemptedGraceful, goneAtStart, polls, sent>>

\* ------------------------------------------------- UnityLockChecker.check
CheckStart ==
    \E p \in ProjectPaths :
        /\ Begin("check", p)
        /\ pc' = "chk_find"

\* CheckFind with the `if (activeProcess)` branch lost: goes on to the lock marker
CheckFind_NoSkip ==
    /\ pc = "chk_find"
    /\ \E q \in QueryOutcomes :
        LET r == findByProjectPath(proj, q)
        IN  /\ query' = q
            /\ found' = r.pid
            /\ IF r.raised
               THEN pc' = "done" /\ decision' = "raised"
               ELSE pc' = "chk_lock" /\ decision' = decision
    /\ UNCHANGED <<envVars, opVars, trace, errlog, termVars, extVars>>

\* const activeProcess = await findByProjectPath(projectPath)
CheckFind ==
    /\ pc = "chk_find"
    /\ \E q \in QueryOutcomes :
        LET r == findByProjectPath(proj, q)
        IN  /\ query' = q
            /\ found' = r.pid
            /\ IF r.raised
               THEN pc' = "done" /\ decision' = "raised"
               ELSE IF r.pid # NoPid
               THEN pc' = "chk_front" /\ decision' = decision
               ELSE pc' = "chk_lock" /\ decision' = decision
    /\ UNCHANGED <<envVars, opVars, trace, errlog, termVars, extVars>>

\* CheckBringToFront that answers 'allow' for a project with a running editor
CheckBringToFront_Allow ==
    /\ pc = "chk_front"
    /\ IF platform # "darwin"
       THEN UNCHANGED <<trace, errlog>>
       ELSE /\ trace' = Append(trace, Call("front", found))
            /\ \E ok \in BOOLEAN :
                errlog' = IF ok THEN errlog ELSE errlog \cup {"front"}
    /\ decision' = "allow"
    /\ pc' = "done"
    /\ UNCHANGED <<envVars, opVars, found, query, termVars, extVars>>

\* await this.bringUnityToFront(pid); return 'skip'
CheckBringToFront ==
    /\ pc = "chk_front"
    /\ IF platform # "darwin"
       THEN UNCHANGED <<trace, errlog>>
       ELSE /\ trace' = Append(trace, Call("front", found))
            /\ \E ok \in BOOLEAN :
                errlog' = IF ok THEN errlog ELSE errlog \cup {"front"}
    /\ decision' = "skip"
    /\ pc' = "done"
    /\ UNCHANGED <<envVars, opVars, found, query, termVars, extVars>>

\* CheckLockfile that cleans whether or not the marker exists
CheckLockfile_AlwaysClean ==
    /\ pc = "chk_lock"
    /\ hasLockfile' = IF lock[proj.dir] THEN "yes" ELSE "no"
    /\ pc' = "chk_clean"
    /\ decision' = decision
    /\ UNCHANGED <<envVars, op, proj, found, query, trace, errlog, termVars, extVars>>

\* const hasLockfile = await pathExists(lockfilePath)
CheckLockfile ==
    /\ pc = "chk_lock"
    /\ hasLockfile' = IF lock[proj.dir] THEN "yes" ELSE "no"
    /\ IF ~lock[proj.dir]
       THEN pc' = "done" /\ decision' = "allow"
       ELSE pc' = "chk_clean" /\ decision' = decision
    /\ UNCHANGED <<envVars, op, proj, found, query, trace, errlog, termVars, extVars>>

\* UnityTempDirectoryCleaner.clean: rm -rf <project>/Temp, errors swallowed.
\* The lock marker lives inside Temp; a failed rm may have removed it or not.
\* what rm(<project>/Temp, {recursive, force}) can leave of a Temp directory
\* and the marker in it: both gone, or, on a failure, the directory still
\* there with the marker removed or not
RmOutcomes(t, l) ==
    {[temp |-> FALSE, lock |-> FALSE, failed |-> FALSE]}
    \cup (IF t THEN {[temp |-> TRUE, lock |-> x, failed |-> TRUE] : x \in {l, FALSE}}
          ELSE {})

\* clean() without the try/catch around rm
CleanRejects_NoCatch(o) == o.failed

\* try { await rm(...) } catch { }: whether clean() rejects
CleanRejects(o) == FALSE

CleanApply(d, o) ==
    /\ temp' = [temp EXCEPT ![d] = o.temp]
    /\ lock' = [lock EXCEPT ![d] = o.lock]
    /\ swallowed' = IF o.failed /\ ~CleanRejects(o) THEN swallowed \cup {"clean"}
                    ELSE swallowed

\* a cleaner that deletes nothing
Clean_Nothing(d) == UNCHANGED <<temp, lock, swallowed>>

Clean(d) == \E o \in RmOutcomes(temp[d], lock[d]) : CleanApply(d, o)

\* CheckClean that forgets the cleaner and goes straight to the marker removal
CheckClean_Skipped ==
    /\ pc = "chk_clean"
    /\ pc' = "chk_rm"
    /\ UNCHANGED <<envVars, opVars, found, query, decision, trace, errlog, termVars, extVars>>

\* try { await this.tempDirectoryCleaner.clean(projectPath) } catch { log }
CheckClean ==
    /\ pc = "chk_clean"
    /\ Clean(proj.dir)
    /\ trace' = Append(trace, Call("clean", proj))
    /\ pc' = "chk_rm"
    /\ UNCHANGED <<platform, ptable, foreign, opVars, found, query, decision, errlog, termVars, extVarsButSwallowed>>

\* CheckRemoveLock that lets a failed removal reach the caller
CheckRemoveLock_Rethrow ==
    /\ pc = "chk_rm"
    /\ trace' = Append(trace, Call("rmLock", proj))
    /\ \/ lock' = [lock EXCEPT ![proj.dir] = FALSE] /\ errlog' = errlog /\ decision' = "allow"
       \/ /\ lock[proj.dir]
          /\ lock' = lock
          /\ errlog' = errlog \cup {"rmLock"}
          /\ decision' = "raised"
    /\ pc' = "done"
    /\ UNCHANGED <<platform, ptable, foreign, temp, opVars, found, query, termVars, extVars>>

\* try { await rm(lockfilePath, { force: true }) } catch { log }; return 'allow'
CheckRemoveLock ==
    /\ pc = "chk_rm"
    /\ trace' = Append(trace, Call("rmLock", proj))
    /\ \/ lock' = [lock EXCEPT ![proj.dir] = FALSE] /\ errlog' = errlog
       \/ lock[proj.dir] /\ lock' = lock /\ errlog' = errlog \cup {"rmLock"}
    /\ decision' = "allow"
    /\ pc' = "done"
    /\ UNCHANGED <<platform, ptable, foreign, temp, opVars, found, query, termVars, extVars>>

\* ------------------------------------------------------------ environment
\* a process exits (on its own, or because of a signal it received)
ProcExit ==
    \E pid \in Pids :
        /\ Alive(pid)
        /\ ptable' = [ptable EXCEPT ![pid] = NoProc]
        /\ spawned' = spawned \ {pid}
        /\ UNCHANGED <<platform, foreign, lock, temp, pc, op, proj, hasLockfile, found, query,
                       decision, termination, result, trace, now, deadline,
                       attemptedGraceful, goneAtStart, polls, sent, errlog, extVarsButSpawned>>

\* the operation has returned to its caller; the next one may start
Finish ==
    /\ pc = "done"
    /\ launch # "check"
    /\ editor.state # "unity"
    /\ pc' = "idle"
    /\ UNCHANGED <<envVars, opVars, found, query, decision, termination, result,
                   trace, now, deadline, attemptedGraceful, goneAtStart, polls, sent, errlog, extVars>>


\* ------------------------------------------ TerminateProjectUseCase.execute
Result(t, m) == [state |-> "returned", terminated |-> t, message |-> m]
ResultRaised == [state |-> "raised", terminated |-> FALSE, message |-> "none"]
MsgNoProcess == "No Unity process is running for this project."
MsgFailed == "Failed to terminate the Unity process."

\* where terminate() of the platform's terminator begins
TerminateEntry ==
    IF platform = "win32" THEN "w_stop"
    ELSE IF platform = "darwin" THEN "m_quit"
    ELSE "m_sigterm"

TerminateStart ==
    \E p \in ProjectPaths :
        /\ Begin("terminate", p)
        /\ pc' = "uc_find"

\* TerminateFind that hands "no process" to the terminator as well
TerminateFind_NoGuard ==
    /\ pc = "uc_find"
    /\ \E q \in QueryOutcomes :
        LET r == findByProjectPath(proj, q)
        IN  /\ query' = q
            /\ found' = r.pid
            /\ IF r.raised
               THEN pc' = "done" /\ result' = ResultRaised
               ELSE pc' = TerminateEntry /\ result' = result
    /\ UNCHANGED <<envVars, opVars, decision, trace, errlog, termination, now,
                   deadline, attemptedGraceful, goneAtStart, polls, sent, extVars>>

\* const unityProcess = await findByProjectPath(project.path)
TerminateFind ==
    /\ pc = "uc_find"
    /\ \E q \in QueryOutcomes :
        LET r == findByProjectPath(proj, q)
        IN  /\ query' = q
            /\ found' = r.pid
            /\ IF r.raised
               THEN pc' = "done" /\ result' = ResultRaised
               ELSE IF r.pid = NoPid
               THEN pc' = "done" /\ result' = Result(FALSE, MsgNoProcess)
               ELSE pc' = TerminateEntry /\ result' = result
    /\ UNCHANGED <<envVars, opVars, decision, trace, errlog, termination, now,
                   deadline, attemptedGraceful, goneAtStart, polls, sent, extVars>>

\* terminate() hands its value, or its error, to the use case
TermReturn(t) == termination' = t /\ pc' = "uc_after"

\* the state of the pid at the first statement of terminate()
NoteStart ==
    goneAtStart' = IF goneAtStart # "unset" THEN goneAtStart
                   ELSE IF Alive(found) THEN "alive" ELSE "gone"

\* ----------------------------------------- MacUnityProcessTerminator.terminate
\* MacQuit without the catch around the graceful stage
MacQuit_NoCatch ==
    /\ pc = "m_quit"
    /\ NoteStart
    /\ attemptedGraceful' = TRUE
    /\ trace' = Append(trace, Call("quit", found))
    /\ \E ok \in BOOLEAN :
        /\ sent' = [sent EXCEPT !["quit"] = IF ok THEN "ok" ELSE "failed"]
        /\ IF ok
           THEN /\ deadline' = now + GRACEFUL_QUIT_TIMEOUT_MILLIS
                /\ pc' = "m_gwait"
                /\ termination' = termination
           ELSE deadline' = deadline /\ TermReturn(Raised)
    /\ UNCHANGED <<envVars, opVars, found, query, decision, errlog,
                   result, now, polls, extVars>>

\* osascript: bring to front and keystroke "q" using {command down}; a
\* failing osascript is caught and the terminator goes on with SIGTERM
MacQuit ==
    /\ pc = "m_quit"
    /\ NoteStart
    /\ attemptedGraceful' = TRUE
    /\ trace' = Append(trace, Call("quit", found))
    /\ \E ok \in BOOLEAN :
        /\ sent' = [sent EXCEPT !["quit"] = IF ok THEN "ok" ELSE "failed"]
        /\ IF ok
           THEN deadline' = now + GRACEFUL_QUIT_TIMEOUT_MILLIS /\ pc' = "m_gwait"
           ELSE deadline' = deadline /\ pc' = "m_sigterm"
    /\ UNCHANGED <<envVars, opVars, found, query, decision, errlog, termination,
                   result, now, polls, extVars>>

\* MacGracefulPoll that goes on with SIGTERM although the probe found the
\* process gone
MacGracefulPoll_NoReturn ==
    /\ pc = "m_gwait"
    /\ now < deadline
    /\ \E d \in Delays(GRACEFUL_QUIT_POLL_INTERVAL_MILLIS) :
        LET a == MacEnsureProcessAlive(found)
        IN  /\ now' = now + d
            /\ polls' = [polls EXCEPT !["graceful"] = a]
            /\ termination' = termination
            /\ pc' = IF a = "alive" /\ now' < deadline THEN "m_gwait" ELSE "m_sigterm"
    /\ UNCHANGED <<envVars, opVars, found, query, decision, errlog, trace, result,
                   deadline, attemptedGraceful, goneAtStart, sent, extVars>>

\* one turn of the graceful loop: delay, probe, loop test; a throwing probe is
\* swallowed by the catch around the stage
MacGracefulPoll ==
    /\ pc = "m_gwait"
    /\ now < deadline
    /\ \E d \in Delays(GRACEFUL_QUIT_POLL_INTERVAL_MILLIS) :
        LET a == MacEnsureProcessAlive(found)
        IN  /\ now' = now + d
            /\ polls' = [polls EXCEPT !["graceful"] = a]
            /\ IF a = "dead" THEN TermReturn(Returned(TRUE, "graceful"))
               ELSE /\ termination' = termination
                    /\ pc' = IF a = "alive" /\ now' < deadline THEN "m_gwait"
                             ELSE "m_sigterm"
    /\ UNCHANGED <<envVars, opVars, found, query, decision, errlog, trace, result,
                   deadline, attemptedGraceful, goneAtStart, sent, extVars>>

\* MacSigterm that records 'sigterm' for a missing process even after the
\* graceful attempt
MacSigterm_StageSigterm ==
    /\ pc = "m_sigterm"
    /\ NoteStart
    /\ trace' = Append(trace, Call("sigterm", found))
    /\ LET errno == Kill(found)
       IN  /\ sent' = [sent EXCEPT !["sigterm"] = errno]
           /\ IF isProcessMissingError(errno)
              THEN TermReturn(Returned(TRUE, "sigterm")) /\ deadline' = deadline
              ELSE IF errno # "ok"
              THEN TermReturn(Raised) /\ deadline' = deadline
              ELSE /\ termination' = termination
                   /\ deadline' = now + TERMINATE_TIMEOUT_MILLIS
                   /\ pc' = "m_twait"
    /\ UNCHANGED <<envVars, opVars, found, query, decision, errlog, result, now,
                   attemptedGraceful, polls, extVars>>

\* process.kill(pid, 'SIGTERM')
MacSigterm ==
    /\ pc = "m_sigterm"
    /\ NoteStart
    /\ trace' = Append(trace, Call("sigterm", found))
    /\ LET errno == Kill(found)
       IN  /\ sent' = [sent EXCEPT !["sigterm"] = errno]
           /\ IF isProcessMissingError(errno)
              THEN /\ TermReturn(Returned(TRUE, IF attemptedGraceful THEN "graceful"
                                                ELSE "sigterm"))
                   /\ deadline' = deadline
              ELSE IF errno # "ok"
              THEN TermReturn(Raised) /\ deadline' = deadline
              ELSE /\ termination' = termination
                   /\ deadline' = now + TERMINATE_TIMEOUT_MILLIS
                   /\ pc' = "m_twait"
    /\ UNCHANGED <<envVars, opVars, found, query, decision, errlog, result, now,
                   attemptedGraceful, polls, extVars>>

\* one turn of the SIGTERM loop: delay, probe, loop test
MacSigtermPoll ==
    /\ pc = "m_twait"
    /\ now < deadline
    /\ \E d \in Delays(TERMINATE_POLL_INTERVAL_MILLIS) :
        LET a == MacEnsureProcessAlive(found)
        IN  /\ now' = now + d
            /\ polls' = [polls EXCEPT !["sigterm"] = a]
            /\ IF a = "dead" THEN TermReturn(Returned(TRUE, "sigterm"))
               ELSE IF a = "throw" THEN TermReturn(Raised)
               ELSE /\ termination' = termination
                    /\ pc' = IF now' < deadline THEN "m_twait" ELSE "m_sigkill"
    /\ UNCHANGED <<envVars, opVars, found, query, decision, errlog, trace, result,
                   deadline, attemptedGraceful, goneAtStart, sent, extVars>>

\* process.kill(pid, 'SIGKILL')
MacSigkill ==
    /\ pc = "m_sigkill"
    /\ trace' = Append(trace, Call("sigkill", found))
    /\ LET errno == Kill(found)
       IN  /\ sent' = [sent EXCEPT !["sigkill"] = errno]
           /\ IF isProcessMissingError(errno) THEN TermReturn(Returned(TRUE, "sigkill"))
              ELSE IF errno # "ok" THEN TermReturn(Raised)
              ELSE termination' = termination /\ pc' = "m_kwait"
    /\ UNCHANGED <<envVars, opVars, found, query, decision, errlog, result, now,
                   deadline, attemptedGraceful, goneAtStart, polls, extVars>>

\* MacKillProbe with the two arms of `aliveAfterKill ? ... : ...` exchanged
MacKillProbe_Swapped ==
    /\ pc = "m_kwait"
    /\ \E d \in Delays(TERMINATE_POLL_INTERVAL_MILLIS) :
        LET a == MacEnsureProcessAlive(found)
        IN  /\ now' = now + d
            /\ polls' = [polls EXCEPT !["sigkill"] = a]
            /\ IF a = "throw" THEN TermReturn(Raised)
               ELSE IF a = "alive" THEN TermReturn(Returned(TRUE, "sigkill"))
               ELSE TermReturn(Returned(FALSE, "none"))
    /\ UNCHANGED <<envVars, opVars, found, query, decision, errlog, trace, result,
                   deadline, attemptedGraceful, goneAtStart, sent, extVars>>

\* await delay(200); return by the probe after the kill
MacKillProbe ==
    /\ pc = "m_kwait"
    /\ \E d \in Delays(TERMINATE_POLL_INTERVAL_MILLIS) :
        LET a == MacEnsureProcessAlive(found)
        IN  /\ now' = now + d
            /\ polls' = [polls EXCEPT !["sigkill"] = a]
            /\ IF a = "throw" THEN TermReturn(Raised)
               ELSE IF a = "alive" THEN TermReturn(Returned(FALSE, "none"))
               ELSE TermReturn(Returned(TRUE, "sigkill"))
    /\ UNCHANGED <<envVars, opVars, found, query, decision, errlog, trace, result,
                   deadline, attemptedGraceful, goneAtStart, sent, extVars>>

\* ----------------------------------------- WinUnityProcessTerminator.terminate
\* Stop-Process -Id <pid>; when the command fails, one probe
WinStop ==
    /\ pc = "w_stop"
    /\ NoteStart
    /\ trace' = Append(trace, Call("sigterm", found))
    /\ \E ok \in BOOLEAN :
        LET a == WinEnsureProcessAlive(found)
        IN  /\ sent' = [sent EXCEPT !["sigterm"] = IF ok THEN "ok" ELSE "failed"]
            /\ IF ~ok /\ a # "alive"
               THEN /\ polls' = [polls EXCEPT !["sigterm"] = a]
                    /\ TermReturn(Returned(TRUE, "sigterm"))
                    /\ deadline' = deadline
               ELSE /\ polls' = IF ok THEN polls ELSE [polls EXCEPT !["sigterm"] = a]
                    /\ termination' = termination
                    /\ deadline' = now + TERMINATE_TIMEOUT_MILLIS
                    /\ pc' = "w_twait"
    /\ UNCHANGED <<envVars, opVars, found, query, decision, errlog, result, now,
                   attemptedGraceful, extVars>>

\* WinStopPoll that goes on to the forced stop whatever the probe answered
WinStopPoll_ForceAnyway ==
    /\ pc = "w_twait"
    /\ now < deadline
    /\ \E d \in Delays(TERMINATE_POLL_INTERVAL_MILLIS) :
        LET a == WinEnsureProcessAlive(found)
        IN  /\ now' = now + d
            /\ polls' = [polls EXCEPT !["sigterm"] = a]
            /\ termination' = termination
            /\ pc' = IF a = "alive" /\ now' < deadline THEN "w_twait" ELSE "w_force"
    /\ UNCHANGED <<envVars, opVars, found, query, decision, errlog, trace, result,
                   deadline, attemptedGraceful, goneAtStart, sent, extVars>>

\* one turn of the wait loop: delay, probe, loop test
WinStopPoll ==
    /\ pc = "w_twait"
    /\ now < deadline
    /\ \E d \in Delays(TERMINATE_POLL_INTERVAL_MILLIS) :
        LET a == WinEnsureProcessAlive(found)
        IN  /\ now' = now + d
            /\ polls' = [polls EXCEPT !["sigterm"] = a]
            /\ IF a # "alive" THEN TermReturn(Returned(TRUE, "sigterm"))
               ELSE /\ termination' = termination
                    /\ pc' = IF now' < deadline THEN "w_twait" ELSE "w_force"
    /\ UNCHANGED <<envVars, opVars, found, query, decision, errlog, trace, result,
                   deadline, attemptedGraceful, goneAtStart, sent, extVars>>

\* Stop-Process -Id <pid> -Force; when the command fails, one probe decides
WinForce ==
    /\ pc = "w_force"
    /\ trace' = Append(trace, Call("sigkill", found))
    /\ \E ok \in BOOLEAN :
        LET a == WinEnsureProcessAlive(found)
        IN  /\ sent' = [sent EXCEPT !["sigkill"] = IF ok THEN "ok" ELSE "failed"]
            /\ IF ok
               THEN polls' = polls /\ termination' = termination /\ pc' = "w_kwait"
               ELSE /\ polls' = [polls EXCEPT !["sigkill"] = a]
                    /\ IF a # "alive" THEN TermReturn(Returned(TRUE, "sigkill"))
                       ELSE TermReturn(Returned(FALSE, "none"))
    /\ UNCHANGED <<envVars, opVars, found, query, decision, errlog, result, now,
                   deadline, attemptedGraceful, goneAtStart, extVars>>

\* WinKillProbe that names the stage in a failure as well
WinKillProbe_StageOnFailure ==
    /\ pc = "w_kwait"
    /\ \E d \in Delays(TERMINATE_POLL_INTERVAL_MILLIS) :
        LET a == WinEnsureProcessAlive(found)
        IN  /\ now' = now + d
            /\ polls' = [polls EXCEPT !["sigkill"] = a]
            /\ IF a = "alive" THEN TermReturn(Returned(FALSE, "sigkill"))
               ELSE TermReturn(Returned(TRUE, "sigkill"))
    /\ UNCHANGED <<envVars, opVars, found, query, decision, errlog, trace, result,
                   deadline, attemptedGraceful, goneAtStart, sent, extVars>>

\* await delay(200); return by the probe after the forced stop
WinKillProbe ==
    /\ pc = "w_kwait"
    /\ \E d \in Delays(TERMINATE_POLL_INTERVAL_MILLIS) :
        LET a == WinEnsureProcessAlive(found)
        IN  /\ now' = now + d
            /\ polls' = [polls EXCEPT !["sigkill"] = a]
            /\ IF a = "alive" THEN TermReturn(Returned(FALSE, "none"))
               ELSE TermReturn(Returned(TRUE, "sigkill"))
    /\ UNCHANGED <<envVars, opVars, found, query, decision, errlog, trace, result,
                   deadline, attemptedGraceful, goneAtStart, sent, extVars>>

\* ------------------------------ TerminateProjectUseCase.execute, continued
\* NeedsClean that also cleans after a graceful exit
NeedsClean_AnyStage(t) == t.stage \in Stages

\* Temp is cleaned only for the stages sigterm and sigkill
NeedsClean(t) == t.stage = "sigterm" \/ t.stage = "sigkill"

\* TerminateAfter without the `if (!termination.terminated)` early return
TerminateAfter_NoFailureCheck ==
    /\ pc = "uc_after"
    /\ IF termination.state = "raised"
       THEN pc' = "done" /\ result' = ResultRaised
       ELSE IF NeedsClean(termination)
       THEN pc' = "uc_clean" /\ result' = result
       ELSE pc' = "done" /\ result' = Result(TRUE, "none")
    /\ UNCHANGED <<envVars, opVars, found, query, decision, errlog, trace,
                   termination, now, deadline, attemptedGraceful, goneAtStart,
                   polls, sent, extVars>>

\* the branches after `await this.unityProcessTerminator.terminate(...)`
TerminateAfter ==
    /\ pc = "uc_after"
    /\ IF termination.state = "raised"
       THEN pc' = "done" /\ result' = ResultRaised
       ELSE IF ~termination.terminated
       THEN pc' = "done" /\ result' = Result(FALSE, MsgFailed)
       ELSE IF NeedsClean(termination)
       THEN pc' = "uc_clean" /\ result' = result
       ELSE pc' = "done" /\ result' = Result(TRUE, "none")
    /\ UNCHANGED <<envVars, opVars, found, query, decision, errlog, trace,
                   termination, now, deadline, attemptedGraceful, goneAtStart,
                   polls, sent, extVars>>

\* try { await this.unityTempDirectoryCleaner.clean(project.path) } catch { log }
TerminateClean ==
    /\ pc = "uc_clean"
    /\ Clean(proj.dir)
    /\ trace' = Append(trace, Call("clean", proj))
    /\ result' = Result(TRUE, "none")
    /\ pc' = "done"
    /\ UNCHANGED <<platform, ptable, foreign, opVars, found, query, decision, errlog,
                   termination, now, deadline, attemptedGraceful, goneAtStart,
                   polls, sent, extVarsButSwallowed>>

\* ------------------------------------------------- IEditorPathResolver.resolve
UNITY_EDITOR_BASE == "/Applications/Unity/Hub/Editor"
DefaultProgramFiles == "C:/Program Files"
EditorVersion == "2022.3.1"
\* value of an environment variable that is not set
Unset == "unset"
WinEnvs == [PROGRAMFILES : {Unset, "D:/Program Files"},
            ProgramW6432 : {Unset, DefaultProgramFiles},
            LOCALAPPDATA : {Unset, "C:/Local"}]
\* join(<base>, 'Unity', 'Hub', 'Editor')
HubEditorDir(base) == [base |-> base, hub |-> TRUE]
\* join(root, version.value, <path of the binary below the version>)
Candidate(root) == [root |-> root, version |-> EditorVersion]
MacRoot == [base |-> UNITY_EDITOR_BASE, hub |-> FALSE]
EditorRoots ==
    {MacRoot} \cup {HubEditorDir(b) : b \in {DefaultProgramFiles, "D:/Program Files", "C:/Local"}}

RECURSIVE Unique(_, _)
\* Array.from(new Set(s)): the first n elements of s, each kept once, in order
Unique(s, n) ==
    IF n = 0 THEN <<>>
    ELSE LET u == Unique(s, n - 1)
         IN  IF \E i \in 1..Len(u) : u[i] = s[n] THEN u ELSE Append(u, s[n])

buildCandidateBases(env) ==
    LET programFiles == IF env.PROGRAMFILES = Unset THEN DefaultProgramFiles
                        ELSE env.PROGRAMFILES
        programW6432 == IF env.ProgramW6432 = Unset THEN env.PROGRAMFILES
                        ELSE env.ProgramW6432
        localAppData == env.LOCALAPPDATA
        candidates == <<HubEditorDir(programFiles)>>
                      \o (IF programW6432 # Unset THEN <<HubEditorDir(programW6432)>> ELSE <<>>)
                      \o (IF localAppData # Unset THEN <<HubEditorDir(localAppData)>> ELSE <<>>)
    IN  Unique(candidates, Len(candidates))

\* probed: the paths given to access(); named: the paths the error message holds
MacResolve(installed) ==
    LET editorPath == Candidate(MacRoot)
    IN  IF editorPath \in installed
        THEN [state |-> "ok", path |-> editorPath, probed |-> <<editorPath>>, named |-> <<>>]
        ELSE [state |-> "error", path |-> NoCandidate, probed |-> <<editorPath>>,
              named |-> <<>>]

WinResolve(env, installed) ==
    LET bases == buildCandidateBases(env)
        cands == [i \in 1..Len(bases) |-> Candidate(bases[i])]
        hits == {i \in 1..Len(cands) : cands[i] \in installed}
    IN  IF hits # {}
        THEN LET first == CHOOSE i \in hits : \A j \in hits : i <= j
             IN  [state |-> "ok", path |-> cands[first], probed |-> SubSeq(cands, 1, first),
                  named |-> <<>>]
        ELSE [state |-> "error", path |-> NoCandidate, probed |-> cands, named |-> cands]

resolve(env, installed) ==
    IF platform = "win32" THEN WinResolve(env, installed) ELSE MacResolve(installed)

\* ------------------------------------------------ NodeProcessLauncher.launch
LaunchOptions == [detached |-> "true"]
\* options?.detached ?? false
Detached(options) == options.detached = "true"

\* the command line the OS shows for a process spawned with these arguments
SpawnedCmd(args) ==
    LET at == {i \in 1..(Len(args) - 1) :
                 args[i].tok = "-projectPath" /\ args[i + 1].tok = "<path>"}
    IN  Cmd("unity",
            \E i \in 1..Len(args) : args[i].tok = "-batchmode",
            FALSE,
            IF at = {} THEN "absent" ELSE "bare",
            IF at = {} THEN PlainPath("A")
            ELSE args[(CHOOSE i \in at : \A j \in at : i <= j) + 1].path)

\* pids the OS can give to a new process of this user
FreePids == {pid \in Pids : ~Alive(pid) /\ pid \notin foreign}

\* ------------------------------------------- LaunchProjectUseCase.execute
ExtraTokens == {"-batchmode", "-nographics"}
ExtraArgLists ==
    UNION {[1..n -> {Arg(t) : t \in ExtraTokens}] : n \in 0..MaxExtraArgs}

\* launchArgs with the extra arguments put first
launchArgs_ExtrasFirst(p, extra) == extra \o <<Arg("-projectPath"), PathArg(p)>>

\* ['-projectPath', project.path, ...extraArgs]
launchArgs(p, extra) == <<Arg("-projectPath"), PathArg(p)>> \o extra

LaunchStart ==
    \E p \in ProjectPaths :
        /\ Begin("launch", p)
        /\ pc' = "chk_find"

\* LaunchAfterCheck that goes on whatever check answered
LaunchAfterCheck_NoCancel ==
    /\ pc = "done"
    /\ launch = "check"
    /\ IF decision = "raised"
       THEN launch' = "raised" /\ pc' = pc
       ELSE launch' = "run" /\ pc' = "l_resolve"
    /\ UNCHANGED <<envVars, opVars, found, query, decision, trace, errlog, termVars,
                   swallowed, resolved, extraArgs, spawnCall, spawned, prior, views,
                   cleaner, uiVars, utilVars>>

\* const lockDecision = await check(project.path);
\* if (lockDecision === 'skip') throw new LaunchCancelledError()
LaunchAfterCheck ==
    /\ pc = "done"
    /\ launch = "check"
    /\ IF decision = "raised"
       THEN launch' = "raised" /\ pc' = pc
       ELSE IF decision = "skip"
       THEN launch' = "cancelled" /\ pc' = pc
       ELSE launch' = "run" /\ pc' = "l_resolve"
    /\ UNCHANGED <<envVars, opVars, found, query, decision, trace, errlog, termVars,
                   swallowed, resolved, extraArgs, spawnCall, spawned, prior, views,
                   cleaner, uiVars, utilVars>>

\* const editorPath = await this.editorPathResolver.resolve(project.version):
\* of a resolution that succeeded the use case keeps the path only
LaunchResolve ==
    /\ pc = "l_resolve"
    /\ trace' = Append(trace, Call("resolve", proj))
    /\ \E env \in WinEnvs, installed \in SUBSET {Candidate(r) : r \in EditorRoots} :
        LET r == resolve(env, installed)
        IN  /\ resolved' = IF r.state = "ok" THEN [r EXCEPT !.probed = <<>>] ELSE r
            /\ IF r.state = "ok"
               THEN pc' = "l_args" /\ launch' = launch
               ELSE pc' = "done" /\ launch' = "raised"
    /\ UNCHANGED <<envVars, opVars, found, query, decision, errlog, termVars,
                   swallowed, extraArgs, spawnCall, spawned, prior, views, cleaner, uiVars, utilVars>>

\* const extraArgs = await this.unityProjectOptionsReader.readCliArgs(project.path):
\* the call is awaited outside any try, so a readCliArgs that rejects (see
\* readCliArgs below) ends the launch
LaunchReadCliArgs ==
    /\ pc = "l_args"
    /\ trace' = Append(trace, Call("readCliArgs", proj))
    /\ \/ /\ extraArgs' \in ExtraArgLists
          /\ pc' = "l_spawn"
          /\ launch' = launch
       \/ /\ extraArgs' = extraArgs
          /\ pc' = "done"
          /\ launch' = "raised"
    /\ UNCHANGED <<envVars, opVars, found, query, decision, errlog, termVars,
                   swallowed, resolved, spawnCall, spawned, prior, views,
                   cleaner, uiVars, utilVars>>

\* LaunchSpawn followed by the timestamp write even when spawn() reported an error
LaunchSpawn_IgnoreError ==
    /\ pc = "l_spawn"
    /\ trace' = Append(trace, Call("spawn", proj))
    /\ spawnCall' = [command |-> resolved.path, args |-> launchArgs(proj, extraArgs),
                     detached |-> Detached(LaunchOptions), pid |-> NoPid]
    /\ pc' = "l_update"
    /\ UNCHANGED <<envVars, opVars, found, query, decision, errlog, termVars,
                   swallowed, launch, resolved, extraArgs, spawned, prior, views,
                   cleaner, uiVars, utilVars>>

\* await this.processLauncher.launch(editorPath, launchArgs, { detached: true }):
\* resolves on the child's 'spawn' event, rejects on its 'error' event
LaunchSpawn ==
    /\ pc = "l_spawn"
    /\ trace' = Append(trace, Call("spawn", proj))
    /\ LET call == [command |-> resolved.path, args |-> launchArgs(proj, extraArgs),
                    detached |-> Detached(LaunchOptions), pid |-> NoPid]
       IN  \/ \E pid \in FreePids :
                /\ ptable' = [ptable EXCEPT ![pid] = SpawnedCmd(call.args)]
                /\ spawned' = spawned \cup {pid}
                /\ spawnCall' = [call EXCEPT !.pid = pid]
                /\ pc' = "l_update"
                /\ launch' = launch
           \/ /\ spawnCall' = call
              /\ pc' = "done"
              /\ launch' = "raised"
              /\ UNCHANGED <<ptable, spawned>>
    /\ UNCHANGED <<platform, foreign, lock, temp, opVars, found, query, decision, errlog,
                   termVars, swallowed, resolved, extraArgs, prior, views, cleaner, uiVars, utilVars>>

\* await this.unityHubProjectsReader.updateLastModified(project.path, new Date())
LaunchUpdateLastModified ==
    /\ pc = "l_update"
    /\ trace' = Append(trace, Call("updateLastModified", proj))
    /\ \E ok \in BOOLEAN : launch' = IF ok THEN "done" ELSE "raised"
    /\ pc' = "done"
    /\ UNCHANGED <<envVars, opVars, found, query, decision, errlog, termVars,
                   swallowed, resolved, extraArgs, spawnCall, spawned, prior, views,
                   cleaner, uiVars, utilVars>>

LaunchStep ==
    \/ LaunchAfterCheck
    \/ LaunchResolve
    \/ LaunchReadCliArgs
    \/ LaunchSpawn
    \/ LaunchUpdateLastModified

\* ------------------------------------------------------- App (the list UI)
\* sortedProjects: the rows of the list, in display order
SortedDirs == <<"A", "B">>
UiKeys == {"escape", "j", "k", "s", "v", "q", "o", "O", " "}
\* the callback a key starts, "none" for the keys that start none
HandlerOfKey(key) ==
    IF key = "q" THEN "terminateSelected"
    ELSE IF key = "o" THEN "launchSelected"
    ELSE IF key = "O" THEN "launchSelectedWithEditor"
    ELSE "none"

\* move(delta): the selection stays inside the list
Move(prev, delta) ==
    LET next == prev + delta
    IN  IF Len(SortedDirs) = 0 THEN 0
        ELSE IF next < 0 THEN 0
        ELSE IF next >= Len(SortedDirs) THEN Len(SortedDirs) - 1
        ELSE next

\* useInput: an open menu takes every key (of its own state only that it is
\* open is kept here); otherwise s / v open a menu, j / k move the selection,
\* and q / o / O call the callback of the selected row without waiting for it
UiInput ==
    \E key \in UiKeys :
        /\ IF uiMenu # "none"
           THEN /\ uiMenu' = IF key = "escape" THEN "none" ELSE uiMenu
                /\ UNCHANGED <<uiIndex, uiOps>>
           ELSE IF key \in {"s", "v"}
           THEN /\ uiMenu' = IF key = "s" THEN "sort" ELSE "visibility"
                /\ UNCHANGED <<uiIndex, uiOps>>
           ELSE IF key \in {"j", "k"}
           THEN /\ uiIndex' = Move(uiIndex, IF key = "j" THEN 1 ELSE -1)
                /\ UNCHANGED <<uiMenu, uiOps>>
           ELSE IF HandlerOfKey(key) # "none"
           THEN LET call == <<HandlerOfKey(key), SortedDirs[uiIndex + 1]>>
                IN  /\ uiOps[call] < MaxInFlight
                    /\ uiOps' = [uiOps EXCEPT ![call] = @ + 1]
                    /\ UNCHANGED <<uiIndex, uiMenu>>
           ELSE UNCHANGED uiVars
        /\ UNCHANGED <<envVars, opVars, pc, found, query, decision, trace, errlog, termVars,
                       swallowed, launchVars, spawned, prior, views, cleaner, utilVars>>

\* the use case a callback awaits settles: await onLaunch(project) and the
\* like return or throw
UiSettle ==
    \E call \in UiHandlers \X Dirs :
        /\ uiOps[call] > 0
        /\ uiOps' = [uiOps EXCEPT ![call] = @ - 1]
        /\ UNCHANGED <<envVars, opVars, pc, found, query, decision, trace, errlog, termVars,
                       swallowed, launchVars, spawned, prior, views, cleaner, uiIndex,
                       uiMenu, utilVars>>

\* ----------------------------------------------- ListProjectsUseCase.execute
\* listProjects(): the registry's project of each directory
RegistryPath(d) == CHOOSE p \in ProjectPaths : p.dir = d

\* UnityLockStatusReader.isLocked: pathExists(<project>/Temp/UnityLockfile)
isLocked(p) == lock[p.dir]

\* Promise.allSettled of a lookup: fulfilled with its value, or rejected
Settled(raised, value) ==
    IF raised THEN [status |-> "rejected", value |-> FALSE]
    ELSE [status |-> "fulfilled", value |-> value]

\* determineLaunchStatus that looks at the lock marker first
determineLaunchStatus_LockFirst(hasRunningProcess, locked) ==
    IF locked THEN "crashed"
    ELSE IF hasRunningProcess THEN "running"
    ELSE "idle"

determineLaunchStatus(hasRunningProcess, locked) ==
    IF hasRunningProcess THEN "running"
    ELSE IF locked THEN "crashed"
    ELSE "idle"

\* the view of one project, its process lookup having gone as q
ProjectView(p, q) ==
    LET r == findByProjectPath(p, q)
        lockResult == Settled(FALSE, isLocked(p))
        processResult == Settled(r.raised, r.pid # NoPid)
        locked == IF lockResult.status = "fulfilled" THEN lockResult.value ELSE FALSE
        hasRunningProcess == IF processResult.status = "fulfilled" THEN processResult.value
                             ELSE FALSE
    IN  [found |-> IF r.raised THEN NoPid ELSE r.pid,
         hasRunningProcess |-> hasRunningProcess,
         isLocked |-> locked,
         launchStatus |-> determineLaunchStatus(hasRunningProcess, locked)]

ListStart ==
    /\ Begin("list", PlainPath("A"))
    /\ pc' = "list"

\* the lookups of all projects are started together and awaited together
ListExecute ==
    /\ pc = "list"
    /\ \E qs \in [Dirs -> QueryOutcomes] :
        views' = [d \in Dirs |-> ProjectView(RegistryPath(d), qs[d])]
    /\ pc' = "done"
    /\ UNCHANGED <<envVars, opVars, found, query, decision, trace, errlog, termVars,
                   swallowed, launchVars, spawned, prior, cleaner, uiVars, utilVars>>

\* ------------------------------------- UnityTempDirectoryCleaner.clean, alone
\* one call of clean(d) by any caller; `cleaner` keeps, of the calls made in a
\* row on one project: how many, the Temp directory and marker before the
\* first and before the last of them, and how the last one ended
CleanerCall ==
    \E d \in Dirs :
        /\ cleaner.dir # d \/ cleaner.calls < MaxCleanCalls
        /\ \E o \in RmOutcomes(temp[d], lock[d]) :
            /\ CleanApply(d, o)
            /\ cleaner' = [dir |-> d,
                           calls |-> IF cleaner.dir = d THEN cleaner.calls + 1 ELSE 1,
                           start |-> IF cleaner.dir = d THEN cleaner.start
                                     ELSE <<temp[d], lock[d]>>,
                           before |-> <<temp[d], lock[d]>>,
                           failed |-> o.failed,
                           result |-> IF CleanRejects(o) THEN "rejected" ELSE "resolved"]
        /\ UNCHANGED <<platform, ptable, foreign, opVars, pc, found, query, decision, trace,
                       errlog, termVars, launchVars, spawned, prior, views, uiVars, utilVars>>

\* --------------------------------- WinUnityHubProjectsReader.readCliArgs
\* characters of a cliArgs string: a word character, a whitespace, a double
\* quote, a single quote
Chars == {"a", "sp", "dq", "sq"}
Strings == UNION {[1..n -> Chars] : n \in 0..MaxCliLen}
IsSpace(c) == c = "sp"
IsQuote(c) == c \in {"dq", "sq"}

Least(S) == CHOOSE i \in S : \A j \in S : i <= j

\* cliArgs.match(/(?:"[^"]*"|'[^']*'|[^\s"']+)/g) from position i on: a quote
\* with a later quote of its kind matches up to the nearest one, a quote
\* without one is passed over, a whitespace is passed over, anything else
\* matches the longest run free of whitespace and quotes
RECURSIVE MatchFrom(_, _)
MatchFrom(s, i) ==
    IF i > Len(s) THEN <<>>
    ELSE IF IsQuote(s[i])
    THEN LET closing == {j \in (i + 1)..Len(s) : s[j] = s[i]}
         IN  IF closing = {} THEN MatchFrom(s, i + 1)
             ELSE <<SubSeq(s, i, Least(closing))>> \o MatchFrom(s, Least(closing) + 1)
    ELSE IF IsSpace(s[i]) THEN MatchFrom(s, i + 1)
    ELSE LET stops == {j \in i..Len(s) : IsSpace(s[j]) \/ IsQuote(s[j])}
             last == IF stops = {} THEN Len(s) ELSE Least(stops) - 1
         IN  <<SubSeq(s, i, last)>> \o MatchFrom(s, last + 1)

\* token.replace(/^['"]|['"]$/g, ''): a quote at the start and a quote at
\* the end are removed, whatever their kinds
StripQuotes(token) ==
    LET first == IF Len(token) > 0 /\ IsQuote(token[1]) THEN 2 ELSE 1
        last == IF Len(token) > 0 /\ IsQuote(token[Len(token)])
                THEN Len(token) - 1 ELSE Len(token)
    IN  IF first > last THEN <<>> ELSE SubSeq(token, first, last)

\* what projectsInfo.json holds for the project:
\*   unreadable   readFile rejects
\*   invalid      the content is not JSON
\*   null         the content is the JSON value null
\*   noEntry      JSON without a member for the project path
\*   noCliArgs    the member has no cliArgs, or a falsy one other than ''
\*   nonString    cliArgs is a truthy value that is not a string
\*   string       cliArgs is the string `text`
SettingsKinds == {"unreadable", "invalid", "null", "noEntry", "noCliArgs", "nonString"}
SettingsSources ==
    {[kind |-> k, text |-> <<>>] : k \in SettingsKinds}
        \cup {[kind |-> "string", text |-> t] : t \in Strings}

Returns(args) == [state |-> "returned", args |-> args]
Rejects == [state |-> "raised", args |-> <<>>]

\* tokens.map(strip) of a mutant that keeps the tokens as matched
MapStrip_KeepQuotes(tokens) == tokens

\* tokens.map((token) => token.replace(...))
MapStrip(tokens) == [i \in 1..Len(tokens) |-> StripQuotes(tokens[i])]

\* readCliArgs: the two try blocks cover readFile and JSON.parse only;
\* json[projectPath] on null and entry.cliArgs.match on a non-string are
\* TypeErrors outside them
readCliArgs(src) ==
    IF src.kind = "unreadable" THEN Returns(<<>>)
    ELSE IF src.kind = "invalid" THEN Returns(<<>>)
    ELSE IF src.kind = "null" THEN Rejects
    ELSE IF src.kind \in {"noEntry", "noCliArgs"} \/ (src.kind = "string" /\ src.text = <<>>)
    THEN Returns(<<>>)
    ELSE IF src.kind = "nonString" THEN Rejects
    ELSE LET tokens == MatchFrom(src.text, 1)
         IN  IF tokens = <<>> THEN Returns(<<>>) ELSE Returns(MapStrip(tokens))

\* a word of a well-formed cliArgs string: bare, or enclosed in quotes
Seqs(S, n) == UNION {[1..k -> S] : k \in 0..n}
Words ==
    {[quote |-> "none", content |-> c] : c \in Seqs({"a"}, MaxWordLen) \ {<<>>}}
        \cup {[quote |-> "dq", content |-> c] : c \in Seqs(Chars \ {"dq"}, MaxWordLen)}
        \cup {[quote |-> "sq", content |-> c] : c \in Seqs(Chars \ {"sq"}, MaxWordLen)}
WordLists == Seqs(Words, MaxWords)

Spaces(n) == [i \in 1..n |-> "sp"]
Written(w) == IF w.quote = "none" THEN w.content ELSE <<w.quote>> \o w.content \o <<w.quote>>
\* the words written out with `gap` whitespaces between them
RECURSIVE Joined(_, _)
Joined(ws, gap) ==
    IF ws = <<>> THEN <<>>
    ELSE IF Len(ws) = 1 THEN Written(ws[1])
    ELSE Written(ws[1]) \o Spaces(gap) \o Joined(Tail(ws), gap)
Render(ws, pad, gap) == Spaces(pad) \o Joined(ws, gap) \o Spaces(pad)

\* one direct call of readCliArgs: on any settings source, or on a cliArgs
\* string written out from a list of words (kept in `from`)
ReadCliArgsCall ==
    /\ cli.state = "none"
    /\ \E src \in SettingsSources :
        \E from \in {NoWords} \cup
                {[wellFormed |-> TRUE, words |-> ws] :
                    ws \in IF src.kind = "string" /\ src.text = <<>> THEN WordLists ELSE {}} :
            \E wide \in BOOLEAN :
                LET pad == IF wide THEN 1 ELSE 0
                    gap == IF wide THEN 2 ELSE 1
                    given == IF from.wellFormed
                             THEN [src EXCEPT !.text = Render(from.words, pad, gap)]
                             ELSE src
                IN  cli' = [src |-> given, from |-> from,
                            state |-> readCliArgs(given).state,
                            args |-> readCliArgs(given).args]
    /\ UNCHANGED <<envVars, opVars, pc, found, query, decision, trace, errlog, termVars,
                   swallowed, launchVars, spawned, prior, views, cleaner, uiVars,
                   gitBash, editor,
                   listing,
                   app,
                   config,
                   shellrc>>

\* ------------------------------------------------- isGitBashEnvironment
\* values of process.env.MSYSTEM and process.env.SHELL; "<unset>" is undefined
MsystemValues == {"<unset>", "", "MINGW64", "MINGW32", "MSYS"}
ShellValues == {"<unset>", "", "/usr/bin/bash", "/bin/BASH", "/bin/zsh",
                "C:/Program Files/Git/bin/bash.exe", "cmd.exe", "powershell.exe"}
\* Boolean(value): undefined and '' are falsy
Truthy(value) == value \notin {"<unset>", ""}
\* /bash/i.test(value ?? '')
TestsBash(value) ==
    value \in {"/usr/bin/bash", "/bin/BASH", "C:/Program Files/Git/bin/bash.exe"}

isGitBashEnvironment(pf, msystem, shell) ==
    IF pf # "win32" THEN FALSE
    ELSE Truthy(msystem) \/ TestsBash(shell)

\* one direct call of isGitBashEnvironment under any environment
GitBashCall ==
    /\ ~gitBash.called
    /\ \E msystem \in MsystemValues, shell \in ShellValues :
        gitBash' = [called |-> TRUE, platform |-> platform, MSYSTEM |-> msystem,
                    SHELL |-> shell,
                    answer |-> isGitBashEnvironment(platform, msystem, shell)]
    /\ UNCHANGED <<envVars, opVars, pc, found, query, decision, trace, errlog, termVars,
                   swallowed, launchVars, spawned, prior, views, cleaner, uiVars,
                   cli, editor,
                   listing,
                   app,
                   config,
                   shellrc>>

\* ------------------------------------------ LaunchWithEditorUseCase.execute
\* what externalEditorPathReader.read() resolves to (it never rejects)
EditorStatuses == {"not_configured", "not_found", "found"}

\* tryLaunchEditor: true when externalEditorLauncher.launch resolved
tryLaunchEditor(threw) == ~threw

\* read the editor setting, try the editor when it was found, then call
\* launchProjectUseCase.execute(project)
WithEditorStart ==
    \E p \in ProjectPaths, status \in EditorStatuses, threw \in BOOLEAN :
        /\ threw => status = "found"
        /\ BeginWith("launch", p,
                     [state |-> "unity", status |-> status, threw |-> threw,
                      unityLaunched |-> FALSE,
                      editorLaunched |-> IF status = "found" THEN tryLaunchEditor(threw)
                                         ELSE FALSE])
        /\ pc' = "chk_find"

\* WithEditorReturn that fails when the external editor was not launched
WithEditorReturn_FailOnEditor ==
    /\ pc = "done"
    /\ launch \in {"done", "raised", "cancelled"}
    /\ editor.state = "unity"
    /\ editor' = IF launch = "done" /\ editor.editorLaunched
                 THEN [editor EXCEPT !.state = "returned", !.unityLaunched = TRUE]
                 ELSE [editor EXCEPT !.state = "raised"]
    /\ UNCHANGED <<envVars, opVars, pc, found, query, decision, trace, errlog, termVars,
                   swallowed, launchVars, spawned, prior, views, cleaner, uiVars,
                   cli, gitBash,
                   listing,
                   app,
                   config,
                   shellrc>>

\* await this.launchProjectUseCase.execute(project) has settled: its error
\* goes to the caller, otherwise { unityLaunched: true, editorLaunched, ... }
WithEditorReturn ==
    /\ pc = "done"
    /\ launch \in {"done", "raised", "cancelled"}
    /\ editor.state = "unity"
    /\ editor' = IF launch = "done"
                 THEN [editor EXCEPT !.state = "returned", !.unityLaunched = TRUE]
                 ELSE [editor EXCEPT !.state = "raised"]
    /\ UNCHANGED <<envVars, opVars, pc, found, query, decision, trace, errlog, termVars,
                   swallowed, launchVars, spawned, prior, views, cleaner, uiVars,
                   cli, gitBash,
                   listing,
                   app,
                   config,
                   shellrc>>

\* ------------------------------------ ListProjectsUseCase.execute, any registry
\* what listProjects() can return: the registry's projects in its order
Registries == {<<>>, <<"A">>, <<"B">>, <<"A", "B">>, <<"B", "A">>}
\* readRepositoryInfo: rejects (a .git file that cannot be read), or resolves
\* to undefined or to a repository
GitOutcomes == {"rejected", "undefined", "repository"}

\* the view of the i-th project: its three lookups settled one by one
ListView(registry, qs, gs, i) ==
    LET p == RegistryPath(registry[i])
        v == ProjectView(p, qs[i])
        repositoryResult == Settled(gs[i] = "rejected", gs[i] = "repository")
    IN  [project |-> p,
         repository |-> IF repositoryResult.status = "fulfilled"
                        THEN repositoryResult.value ELSE FALSE,
         isLocked |-> v.isLocked,
         launchStatus |-> v.launchStatus]

\* projects.map that gives up on every project once one lookup was rejected
ListViews_AllOrNothing(registry, qs, gs) ==
    LET spoiled == \E i \in 1..Len(registry) :
                        gs[i] = "rejected" \/ findByProjectPath(RegistryPath(registry[i]), qs[i]).raised
    IN  [i \in 1..Len(registry) |->
            IF spoiled
            THEN [project |-> RegistryPath(registry[i]), repository |-> FALSE,
                  isLocked |-> FALSE, launchStatus |-> "idle"]
            ELSE ListView(registry, qs, gs, i)]

\* projects.map((project, index) => ...)
ListViews(registry, qs, gs) ==
    [i \in 1..Len(registry) |-> ListView(registry, qs, gs, i)]

\* one direct call of execute(): listProjects() rejects, or returns a registry
\* whose projects are looked up
ListProjectsCall ==
    /\ listing.state = "none"
    /\ \/ listing' = [NoListing EXCEPT !.state = "raised"]
       \/ \E registry \in Registries :
            \E qs \in [1..Len(registry) -> QueryOutcomes],
               gs \in [1..Len(registry) -> GitOutcomes] :
                listing' = [state |-> "returned", registry |-> registry, git |-> gs,
                            query |-> qs, views |-> ListViews(registry, qs, gs)]
    /\ UNCHANGED <<envVars, opVars, pc, found, query, decision, trace, errlog, termVars,
                   swallowed, launchVars, spawned, prior, views, cleaner, uiVars,
                   cli, gitBash, editor,
                   app,
                   config,
                   shellrc>>

\* --------------------------------------------------- App (the list and its window)
\* the projects of the registry, and what the list shows of each: the rank of
\* its name key and of its path under localeCompare, its lastModified, its
\* favorite flag and its listed launch status
AppProjects == {"A", "B", "C"}
NameKey(id) == IF id = "B" THEN 2 ELSE 1
PathKey(id) == IF id = "A" THEN 1 ELSE IF id = "B" THEN 2 ELSE 3
Time(id) == IF id = "A" THEN 1 ELSE 2
Favorite(id) == id = "C"
ListedStatus(id) == IF id = "A" THEN "idle" ELSE IF id = "B" THEN "running" ELSE "crashed"
\* stdout.rows; stdout.columns stays at 80, where the default hint takes two rows
AppRows == {8, 14}
LaunchKinds == {"launchSelected", "launchSelectedWithEditor"}
Max(a, b) == IF a > b THEN a ELSE b
Min(a, b) == IF a < b THEN a ELSE b

compareByUpdated(a, b, direction) ==
    IF Time(a) = Time(b) THEN 0
    ELSE IF direction = "desc" THEN Time(b) - Time(a) ELSE Time(a) - Time(b)

compareByName(a, b, direction) ==
    IF NameKey(a) = NameKey(b) THEN 0
    ELSE IF direction = "desc" THEN NameKey(b) - NameKey(a) ELSE NameKey(a) - NameKey(b)

\* the comparator of sortedProjects
compare(a, b, sort) ==
    IF sort.favoritesFirst /\ Favorite(a) # Favorite(b)
    THEN IF Favorite(a) THEN -1 ELSE 1
    ELSE IF sort.primary = "updated"
    THEN IF compareByUpdated(a, b, sort.direction) # 0
         THEN compareByUpdated(a, b, sort.direction)
         ELSE IF compareByName(a, b, "asc") # 0 THEN compareByName(a, b, "asc")
         ELSE PathKey(a) - PathKey(b)
    ELSE IF compareByName(a, b, sort.direction) # 0
         THEN compareByName(a, b, sort.direction)
         ELSE IF compareByUpdated(a, b, "desc") # 0 THEN compareByUpdated(a, b, "desc")
         ELSE PathKey(a) - PathKey(b)

\* [...projectViews].sort(comparator): no two projects compare equal
sortedProjects(projectViews, sort) ==
    LET ids == {projectViews[i] : i \in 1..Len(projectViews)}
    IN  [i \in 1..Cardinality(ids) |->
            CHOOSE a \in ids : Cardinality({b \in ids : compare(b, a, sort) < 0}) = i - 1]

\* what listProjects can answer: some of the projects, favorites first, then
\* the latest lastModified first, then by title and path
RegistryLists ==
    {sortedProjects(s, NoApp.sort) :
        s \in {<<>>, <<"A">>, <<"B">>, <<"C">>, <<"A", "B">>, <<"A", "C">>, <<"B", "C">>,
               <<"A", "B", "C">>}}

\* updatedProjects.findIndex(candidate => candidate.project.id === id)
findIndex(list, id) ==
    IF \E i \in 1..Len(list) : list[i] = id
    THEN (CHOOSE i \in 1..Len(list) : list[i] = id) - 1
    ELSE -1

\* sortedProjects[index]?.project.id
ProjectAt(list, index) ==
    IF index + 1 \in 1..Len(list) THEN list[index + 1] ELSE "none"

Sorted(a) == sortedProjects(a.projectViews, a.sort)

\* useVisibleCount.compute
compute(a) ==
    LET linesPerProject == (IF a.visibility.showBranch THEN 1 ELSE 0)
                               + (IF a.visibility.showPath THEN 1 ELSE 0) + 2
        panelHeight == IF a.menu = "visibility" THEN 5 ELSE 6
        statusBarRows == IF a.menu # "none" THEN 1 ELSE IF a.hint = "default" THEN 2 ELSE 1
        reservedRows == 2 + statusBarRows + (IF a.menu # "none" THEN panelHeight + 1 ELSE 0)
        availableRows == Max(0, a.rows - reservedRows)
    IN  Max(1, availableRows \div linesPerProject)

Limit(a) == Max(1, a.visibleCount)

\* the effect on [index, limit, sortedProjects.length]
WindowEffect(prevStart, index, limit, length) ==
    IF length <= limit THEN 0
    ELSE LET maxStart == Max(0, length - limit)
             nextStart == IF index < prevStart THEN index
                          ELSE IF index >= prevStart + limit THEN index - limit + 1
                          ELSE prevStart
         IN  IF nextStart < 0 THEN 0 ELSE IF nextStart > maxStart THEN maxStart ELSE nextStart

\* the setWindowStart of move(delta)
MoveWindow(prevStart, index, delta, limit, length) ==
    IF length <= limit THEN 0
    ELSE LET maxStart == Max(0, length - limit)
             nextStart ==
                 IF delta > 0
                 THEN IF Min(length - 1, index + delta) >= prevStart + limit
                      THEN Min(length - 1, index + delta) - limit + 1 ELSE prevStart
                 ELSE IF Max(0, index + delta) < prevStart
                      THEN Max(0, index + delta) ELSE prevStart
         IN  IF nextStart < 0 THEN 0 ELSE IF nextStart > maxStart THEN maxStart ELSE nextStart

\* the setIndex of move(delta)
MoveIndex(prev, delta, length) ==
    IF length = 0 THEN 0
    ELSE IF prev + delta < 0 THEN 0
    ELSE IF prev + delta >= length THEN length - 1
    ELSE prev + delta

\* startIndex of the rendered window
StartIndex(a) ==
    IF Len(a.projectViews) <= Limit(a) THEN 0
    ELSE Min(Max(0, a.windowStart), Max(0, Len(a.projectViews) - Limit(a)))

\* the dependencies of the window effect
Deps(a) == <<a.index, Limit(a), Len(a.projectViews)>>

\* the state updates of a handler, then the renders and effects they cause:
\* the window effect runs when one of its dependencies differs from the render
\* before (always, on the first render); the effect of useVisibleCount then
\* sets visibleCount, and the render that causes runs the window effect again
\* when the limit has changed
Commit(old, new) ==
    LET length == Len(new.projectViews)
        first == [new EXCEPT !.windowStart =
                     IF old.state = "none" \/ Deps(old) # Deps(new)
                     THEN WindowEffect(@, new.index, Limit(new), length) ELSE @]
        second == [first EXCEPT !.visibleCount = compute(first)]
    IN  [second EXCEPT !.windowStart =
            IF Deps(first) # Deps(second)
            THEN WindowEffect(@, second.index, Limit(second), length) ELSE @]

\* displayStatus of a row of ProjectList
displayStatus(a, id) ==
    IF id \in a.launched THEN "running"
    ELSE IF id \in a.released THEN "idle"
    ELSE ListedStatus(id)

Awaiting(a, kinds) == Cardinality({i \in 1..Len(a.pending) : a.pending[i].kind \in kinds})
Lifecycle == LaunchKinds \cup {"launchEditorOnly", "terminateSelected"}
Drop(seq, i) == [j \in 1..(Len(seq) - 1) |-> IF j < i THEN seq[j] ELSE seq[j + 1]]
Said(a, kind, id, outcome) ==
    [a EXCEPT !.hint = "message",
              !.last = [NoLast EXCEPT !.kind = kind, !.id = id, !.outcome = outcome]]

\* render(<App projects=... outputPathOnExit=... />): the first render and its
\* effects, the projects being one of lists, stdout.rows one of heights and
\* outputPathOnExit one of flags
AppMount(lists, heights, flags) ==
    /\ app.state = "none"
    /\ \E projects \in lists, rows \in heights, outputPathOnExit \in flags :
         app' = Commit(app, [NoApp EXCEPT !.state = "mounted", !.projectViews = projects,
                                          !.rows = rows,
                                          !.outputPathOnExit = outputPathOnExit,
                                          !.visibleCount = compute([NoApp EXCEPT !.rows = rows])])
    /\ UNCHANGED <<envVars, opVars, pc, found, query, decision, trace, errlog, termVars,
                   swallowed, launchVars, spawned, prior, views, cleaner, uiVars,
                   cli, gitBash, editor, listing,
                   config,
                   shellrc>>

\* a callback that awaits a use case on the selected row
StartOn(a, kind) ==
    IF ProjectAt(Sorted(a), a.index) = "none" THEN Said(a, kind, "none", "no project")
    ELSE [a EXCEPT !.pending = Append(@, [kind |-> kind,
                                          id |-> ProjectAt(Sorted(a), a.index),
                                          sorted |-> <<>>]),
                   !.last = [NoLast EXCEPT !.kind = kind, !.outcome = "called"]]

\* refreshProjects that starts a refresh whatever isRefreshing says
refreshProjects_NoGuard(a) ==
    [a EXCEPT !.isRefreshing = TRUE, !.hint = "message",
              !.pending = Append(@, [kind |-> "refreshProjects", id |-> "none",
                                     sorted |-> Sorted(a)]),
              !.last = [NoLast EXCEPT !.kind = "refreshProjects", !.outcome = "called"]]

\* refreshProjects up to its await
refreshProjects(a) ==
    IF a.isRefreshing THEN Said(a, "refreshProjects", "none", "Already refreshing")
    ELSE [a EXCEPT !.isRefreshing = TRUE, !.hint = "message",
                   !.pending = Append(@, [kind |-> "refreshProjects", id |-> "none",
                                          sorted |-> Sorted(a)]),
                   !.last = [NoLast EXCEPT !.kind = "refreshProjects", !.outcome = "called"]]

\* the useInput handler
OnKey(a, key) ==
    IF a.menu = "sort" THEN
        IF key = "escape" THEN [a EXCEPT !.menu = "none", !.last = NoLast]
        ELSE IF key = "j" THEN [a EXCEPT !.sortMenuIndex = IF @ + 1 > 2 THEN 0 ELSE @ + 1,
                                         !.last = NoLast]
        ELSE IF key = "k" THEN [a EXCEPT !.sortMenuIndex = IF @ - 1 < 0 THEN 2 ELSE @ - 1,
                                         !.last = NoLast]
        ELSE IF key # " " THEN [a EXCEPT !.last = NoLast]
        ELSE IF a.sortMenuIndex = 0 THEN
            LET nextPrimary == IF a.sort.primary = "updated" THEN "name" ELSE "updated"
            IN  [a EXCEPT !.sort.primary = nextPrimary,
                          !.sort.direction =
                              IF nextPrimary = "name" /\ ~a.directionManuallyChanged
                              THEN "asc" ELSE @,
                          !.last = NoLast]
        ELSE IF a.sortMenuIndex = 1 THEN
            [a EXCEPT !.directionManuallyChanged = TRUE,
                      !.sort.direction = IF @ = "asc" THEN "desc" ELSE "asc",
                      !.last = NoLast]
        ELSE [a EXCEPT !.sort.favoritesFirst = ~@, !.last = NoLast]
    ELSE IF a.menu = "visibility" THEN
        IF key = "escape" THEN [a EXCEPT !.menu = "none", !.last = NoLast]
        ELSE IF key = "j" THEN [a EXCEPT !.sortMenuIndex = IF @ + 1 > 1 THEN 0 ELSE @ + 1,
                                         !.last = NoLast]
        ELSE IF key = "k" THEN [a EXCEPT !.sortMenuIndex = IF @ - 1 < 0 THEN 1 ELSE @ - 1,
                                         !.last = NoLast]
        ELSE IF key # " " THEN [a EXCEPT !.last = NoLast]
        ELSE IF a.sortMenuIndex = 0 THEN [a EXCEPT !.visibility.showBranch = ~@, !.last = NoLast]
        ELSE [a EXCEPT !.visibility.showPath = ~@, !.last = NoLast]
    ELSE IF key = "s" THEN [a EXCEPT !.menu = "sort", !.sortMenuIndex = 0, !.last = NoLast]
    ELSE IF key = "v" THEN [a EXCEPT !.menu = "visibility", !.sortMenuIndex = 0, !.last = NoLast]
    ELSE IF key \in {"j", "k"} THEN
        LET delta == IF key = "j" THEN 1 ELSE -1
        IN  [a EXCEPT !.index = MoveIndex(@, delta, Len(a.projectViews)),
                      !.windowStart = MoveWindow(@, a.index, delta, Limit(a),
                                                 Len(a.projectViews)),
                      !.last = NoLast]
    ELSE IF key = "q" THEN StartOn(a, "terminateSelected")
    ELSE IF key = "i" THEN StartOn(a, "launchEditorOnly")
    ELSE IF key = "o" THEN StartOn(a, "launchSelected")
    ELSE IF key = "O" THEN StartOn(a, "launchSelectedWithEditor")
    ELSE IF key = "r" THEN refreshProjects(a)
    ELSE IF key = "c" THEN Said(a, "copyProjectPath", "none", "copied")
    ELSE [a EXCEPT !.last = NoLast]

\* a key of keys arrives; the callbacks it starts wait for nothing
AppInput(keys) ==
    /\ app.state = "mounted"
    /\ \E key \in keys :
         LET next == OnKey(app, key)
         IN  /\ Awaiting(next, Lifecycle) <= MaxAppOps
             /\ Awaiting(next, {"refreshProjects"}) <= MaxInFlight
             /\ app' = Commit(app, next)
    /\ UNCHANGED <<envVars, opVars, pc, found, query, decision, trace, errlog, termVars,
                   swallowed, launchVars, spawned, prior, views, cleaner, uiVars,
                   cli, gitBash, editor, listing,
                   config,
                   shellrc>>

\* the terminal is resized: the 'resize' listener of useVisibleCount
AppResize ==
    /\ app.state = "mounted"
    /\ \E rows \in AppRows \ {app.rows} :
         app' = Commit(app, [app EXCEPT !.rows = rows, !.last = NoLast])
    /\ UNCHANGED <<envVars, opVars, pc, found, query, decision, trace, errlog, termVars,
                   swallowed, launchVars, spawned, prior, views, cleaner, uiVars,
                   cli, gitBash, editor, listing,
                   config,
                   shellrc>>

\* a setTimeout of a hint fires: setHint(defaultHintMessage)
AppHintTimer ==
    /\ app.state = "mounted"
    /\ app.hint # "default"
    /\ app' = Commit(app, [app EXCEPT !.hint = "default", !.last = NoLast])
    /\ UNCHANGED <<envVars, opVars, pc, found, query, decision, trace, errlog, termVars,
                   swallowed, launchVars, spawned, prior, views, cleaner, uiVars,
                   cli, gitBash, editor, listing,
                   config,
                   shellrc>>

\* a successful launch that leaves the released set alone
Launched_KeepReleased(a, id) ==
    [a EXCEPT !.launched = @ \cup {id}]

\* setLaunchedProjects / setReleasedProjects after a launch
Launched(a, id) ==
    [a EXCEPT !.launched = @ \cup {id}, !.released = @ \ {id}]

\* the setIndex of a refresh: previousIndex is the index of now, sortedProjects
\* the list of the render that called refreshProjects
RefreshIndex(previousIndex, sorted, updatedProjects) ==
    IF Len(updatedProjects) = 0 THEN 0
    ELSE IF ProjectAt(sorted, previousIndex) = "none"
    THEN Min(previousIndex, Len(updatedProjects) - 1)
    ELSE IF findIndex(updatedProjects, ProjectAt(sorted, previousIndex)) = -1
    THEN Min(previousIndex, Len(updatedProjects) - 1)
    ELSE findIndex(updatedProjects, ProjectAt(sorted, previousIndex))

\* the rest of a callback once the use case it awaits has settled as outcome
Continue(a, call, outcome, updatedProjects) ==
    IF call.kind \in LaunchKinds THEN
        IF outcome \in {"ok", "cancelled"} /\ a.outputPathOnExit
        THEN [a EXCEPT !.state = "exited"]
        ELSE IF outcome = "ok" THEN [Launched(a, call.id) EXCEPT !.hint = "message"]
        ELSE [a EXCEPT !.hint = "message"]
    ELSE IF call.kind = "terminateSelected" THEN
        IF outcome = "ok"
        THEN [a EXCEPT !.launched = @ \ {call.id}, !.released = @ \cup {call.id},
                       !.hint = "message"]
        ELSE [a EXCEPT !.hint = "message"]
    ELSE IF call.kind = "refreshProjects" THEN
        IF outcome = "ok"
        THEN [a EXCEPT !.projectViews = updatedProjects,
                       !.released = {}, !.launched = {},
                       !.index = RefreshIndex(@, call.sorted, updatedProjects),
                       !.windowStart = 0, !.hint = "message", !.isRefreshing = FALSE]
        ELSE [a EXCEPT !.hint = "message", !.isRefreshing = FALSE]
    ELSE [a EXCEPT !.hint = "message"]

\* outcomes of the awaited use cases: a launch returns, is cancelled or
\* fails; a terminate answers terminated ("ok") or not ("cancelled"), or fails
Outcomes(kind) ==
    IF kind \in LaunchKinds \cup {"terminateSelected"} THEN {"ok", "cancelled", "failed"}
    ELSE {"ok", "failed"}

\* an awaited use case settles and its callback runs to its end; a refresh
\* answers one of lists
AppSettle(lists) ==
    /\ app.state = "mounted"
    /\ \E i \in 1..Len(app.pending) :
         \E outcome \in Outcomes(app.pending[i].kind),
            updatedProjects \in IF app.pending[i].kind = "refreshProjects" THEN lists
                                ELSE {<<>>} :
           LET call == app.pending[i]
               rest == [app EXCEPT !.pending = Drop(@, i)]
               next == Continue(rest, call, outcome, updatedProjects)
           IN  app' = Commit(app,
                   [next EXCEPT !.last =
                       [kind |-> call.kind, id |-> call.id, outcome |-> outcome,
                        changed |-> <<next.launched, next.released>>
                                        # <<app.launched, app.released>>,
                        prev |-> IF call.kind = "refreshProjects"
                                 THEN ProjectAt(Sorted(app), app.index) ELSE "none"]])
    /\ UNCHANGED <<envVars, opVars, pc, found, query, decision, trace, errlog, termVars,
                   swallowed, launchVars, spawned, prior, views, cleaner, uiVars,
                   cli, gitBash, editor, listing,
                   config,
                   shellrc>>

\* ------------------------------------------------- config.json (preferences)
\* the values a preference takes: 0 is its default
PrefValues == {0, 1}
Parts == {"sort", "visibility"}

\* { ...current, sort: sanitizeSort(prefs) } and { ...current, visibility: ... }
Merged(current, which, prefs) ==
    IF which = "sort" THEN [current EXCEPT !.sort = prefs]
    ELSE [current EXCEPT !.visibility = prefs]

\* a write whose turn it is: writeSortPreferences is called at once, a
\* writeVisibilityPreferences waits on writeQueueRef for the ones before it
Turn(i) ==
    config.writes[i].which = "visibility" =>
        \A j \in 1..(i - 1) : config.writes[j].which # "visibility"

\* the preferences change and the effect of the hook saves them:
\* void writeSortPreferences(prefs), or a writeVisibilityPreferences(prefs)
\* appended to writeQueueRef
ConfigSave ==
    /\ Len(config.writes) < MaxWrites
    /\ \E which \in Parts, prefs \in PrefValues :
         config' = [config EXCEPT
                       !.writes = Append(@, [which |-> which, prefs |-> prefs,
                                             phase |-> "read", current |-> NoConfig.file]),
                       !.last = NoConfig.last]
    /\ UNCHANGED <<envVars, opVars, pc, found, query, decision, trace, errlog, termVars,
                   swallowed, launchVars, spawned, prior, views, cleaner, uiVars,
                   cli, gitBash, editor, listing, app,
                   shellrc>>

\* const current = await readAppConfig()
ConfigRead ==
    /\ \E i \in 1..Len(config.writes) :
         /\ config.writes[i].phase = "read"
         /\ Turn(i)
         /\ config' = [config EXCEPT !.writes[i].phase = "write",
                                     !.writes[i].current = config.file,
                                     !.last = NoConfig.last]
    /\ UNCHANGED <<envVars, opVars, pc, found, query, decision, trace, errlog, termVars,
                   swallowed, launchVars, spawned, prior, views, cleaner, uiVars,
                   cli, gitBash, editor, listing, app,
                   shellrc>>

\* await writeAppConfig(next): writeFile(getConfigPath(), json)
ConfigWrite ==
    /\ \E i \in 1..Len(config.writes) :
         /\ config.writes[i].phase = "write"
         /\ config' = [file |-> Merged(config.writes[i].current, config.writes[i].which,
                                       config.writes[i].prefs),
                       writes |-> Drop(config.writes, i),
                       last |-> [which |-> config.writes[i].which, before |-> config.file]]
    /\ UNCHANGED <<envVars, opVars, pc, found, query, decision, trace, errlog, termVars,
                   swallowed, launchVars, spawned, prior, views, cleaner, uiVars,
                   cli, gitBash, editor, listing, app,
                   shellrc>>

\* ------------------------------------------------ installShellInit (index.tsx)
\* The shell config file is a sequence of pieces: a line of the user ("t",
\* "u"), white space ("n"), the start and the end marker ("S", "E"), and the
\* body of a generated script ("v1", "v2": the script changes with the node
\* and the cli path).
UserLines == {"t", "u"}
Scripts == {"v1", "v2"}
RcFiles == UNION {[1..n -> UserLines \cup {"n"}] : n \in 0..MaxRcLen}

\* getShellInitScriptWithMarkers
getShellInitScriptWithMarkers(script) == <<"S", "n", script, "n", "E">>

\* the first match of markerPattern in content from position from on: the
\* first start marker that an end marker follows, up to the nearest one
MarkerMatch(content, from) ==
    LET starts == {i \in from..Len(content) :
                      /\ content[i] = "S"
                      /\ \E j \in (i + 1)..Len(content) : content[j] = "E"}
        first == CHOOSE i \in starts : \A k \in starts : i <= k
        ends == {j \in (first + 1)..Len(content) : content[j] = "E"}
    IN  IF starts = {} THEN [found |-> FALSE, first |-> 0, last |-> 0]
        ELSE [found |-> TRUE, first |-> first,
              last |-> CHOOSE j \in ends : \A k \in ends : j <= k]

\* content.replace(markerPattern, replacement), from position from on
RECURSIVE ReplaceAll(_, _, _)
ReplaceAll(content, from, replacement) ==
    LET m == MarkerMatch(content, from)
    IN  IF ~m.found THEN SubSeq(content, from, Len(content))
        ELSE SubSeq(content, from, m.first - 1) \o replacement
                 \o ReplaceAll(content, m.last + 1, replacement)

\* content.trimEnd()
RECURSIVE trimEnd(_)
trimEnd(content) ==
    IF content # <<>> /\ content[Len(content)] = "n"
    THEN trimEnd(SubSeq(content, 1, Len(content) - 1))
    ELSE content

\* installShellInit that appends the block whether or not one is there
installShellInit_AlwaysAppend(content, supported, script) ==
    [content |-> trimEnd(content) \o <<"n", "n">> \o getShellInitScriptWithMarkers(script)
                     \o <<"n">>,
     message |-> "installed", wrote |-> TRUE]

\* installShellInit on a config file of this content
installShellInit(content, supported, script) ==
    LET scriptWithMarkers == getShellInitScriptWithMarkers(script)
        m == MarkerMatch(content, 1)
    IN  IF ~supported THEN [content |-> content, message |-> "unsupported", wrote |-> FALSE]
        ELSE IF m.found /\ SubSeq(content, m.first, m.last) = scriptWithMarkers
        THEN [content |-> content, message |-> "already up to date", wrote |-> FALSE]
        ELSE IF m.found
        THEN [content |-> ReplaceAll(content, 1, scriptWithMarkers),
              message |-> "updated", wrote |-> TRUE]
        ELSE [content |-> trimEnd(content) \o <<"n", "n">> \o scriptWithMarkers \o <<"n">>,
              message |-> "installed", wrote |-> TRUE]

\* the lines of the user in content, in order
RECURSIVE LinesOf(_)
LinesOf(content) ==
    IF content = <<>> THEN <<>>
    ELSE (IF content[1] \in UserLines THEN <<content[1]>> ELSE <<>>) \o LinesOf(Tail(content))

\* the shell config file as the user wrote it: absent or empty, or some lines
ShellRcStart ==
    /\ shellrc.state = "none"
    /\ \E content \in RcFiles :
         shellrc' = [NoShellRc EXCEPT !.state = "file", !.content = content,
                                      !.user = LinesOf(content)]
    /\ UNCHANGED <<envVars, opVars, pc, found, query, decision, trace, errlog, termVars,
                   swallowed, launchVars, spawned, prior, views, cleaner, uiVars,
                   cli, gitBash, editor, listing, app, config>>

\* the user adds a line at the end of the file
ShellRcEdit ==
    /\ shellrc.state = "file"
    /\ Len(shellrc.user) < MaxRcLen
    /\ \E line \in UserLines :
         shellrc' = [shellrc EXCEPT !.content = Append(@, line), !.user = Append(@, line),
                                    !.last = NoShellRc.last]
    /\ UNCHANGED <<envVars, opVars, pc, found, query, decision, trace, errlog, termVars,
                   swallowed, launchVars, spawned, prior, views, cleaner, uiVars,
                   cli, gitBash, editor, listing, app, config>>

\* unity-hub-cli --shell-init, confirmed
ShellInstall ==
    /\ shellrc.state = "file"
    /\ shellrc.installs < MaxInstalls
    /\ \E supported \in BOOLEAN, script \in Scripts :
         LET r == installShellInit(shellrc.content, supported, script)
         IN  shellrc' = [shellrc EXCEPT
                            !.content = r.content,
                            !.installs = IF supported THEN @ + 1 ELSE @,
                            !.last = [message |-> r.message, wrote |-> r.wrote,
                                      before |-> shellrc.content, script |-> script]]
    /\ UNCHANGED <<envVars, opVars, pc, found, query, decision, trace, errlog, termVars,
                   swallowed, launchVars, spawned, prior, views, cleaner, uiVars,
                   cli, gitBash, editor, listing, app, config>>

\* ------------------------------------------------------------------- Next
CheckStep ==
    \/ CheckFind
    \/ CheckBringToFront
    \/ CheckLockfile
    \/ CheckClean
    \/ CheckRemoveLock

TerminatorStep ==
    \/ MacQuit
    \/ MacGracefulPoll
    \/ MacSigterm
    \/ MacSigtermPoll
    \/ MacSigkill
    \/ MacKillProbe
    \/ WinStop
    \/ WinStopPoll
    \/ WinForce
    \/ WinKillProbe

TerminateStep ==
    \/ TerminateFind
    \/ TerminatorStep
    \/ TerminateAfter
    \/ TerminateClean

Next ==
    \/ CheckStart
    \/ TerminateStart
    \/ ListStart
    \/ CheckStep
    \/ TerminateStep
    \/ ListExecute
    \/ ProcExit
    \/ Finish

Spec == Init /\ [][Next]_vars


\* ================================================================= claims
CallsOf(name) == SelectSeq(trace, LAMBDA c : c.call = name)
Issued(name) == CallsOf(name) # <<>>
CheckReturned == op = "check" /\ pc = "done" /\ decision # "raised"
TerminateReturned == op = "terminate" /\ pc = "done" /\ result.state = "returned"

\* C1: once findByProjectPath has returned a process, check issues neither a
\* Temp clean nor a lock-marker removal, and the value it returns is 'skip',
\* whatever the state of the lock marker.
C1_FoundMeansSkip ==
    (op = "check" /\ found # NoPid) =>
        /\ ~Issued("clean")
        /\ ~Issued("rmLock")
        /\ decision \in {"none", "skip"}
        /\ (pc = "done" => decision = "skip")

C1_Witness ==
    /\ op = "check" /\ pc = "done" /\ found # NoPid /\ decision = "skip"
    /\ lock[proj.dir]

\* C2: with no matching process and no lock marker, check returns 'allow'
\* having called neither the cleaner nor the marker removal.
C2_IdleMeansAllowNoCleanup ==
    (op = "check" /\ pc = "done" /\ decision # "raised"
        /\ found = NoPid /\ hasLockfile = "no") =>
        /\ decision = "allow"
        /\ trace = <<>>

C2_Witness ==
    /\ CheckReturned /\ found = NoPid /\ hasLockfile = "no" /\ decision = "allow"

\* C3: with a lock marker and no matching process, check returns 'allow', and
\* by then the cleaner has been called exactly once, for the project, before
\* the marker removal; the removal is never issued before the cleaner call.
C3_CrashMeansCleanThenAllow ==
    (op = "check" /\ hasLockfile = "yes") =>
        /\ found = NoPid
        /\ decision \in {"none", "allow"}
        /\ (Issued("rmLock") => trace[1] = Call("clean", proj))
        /\ (pc = "done" =>
                /\ decision = "allow"
                /\ trace = <<Call("clean", proj), Call("rmLock", proj)>>)

C3_Witness ==
    /\ CheckReturned /\ hasLockfile = "yes" /\ decision = "allow"
    /\ CallsOf("clean") = <<Call("clean", proj)>>

\* C4: when the terminate use case has finished, the cleaner has been called
\* exactly once, with the project's own path, if terminate returned
\* terminated: true with stage sigterm or sigkill; in every other case
\* (graceful, failed, error, no process) it has not been called at all.
C4_CleanIffForcefulOrKill ==
    (op = "terminate" /\ pc = "done") =>
        IF /\ termination.state = "returned"
           /\ termination.terminated
           /\ termination.stage \in {"sigterm", "sigkill"}
        THEN CallsOf("clean") = <<Call("clean", proj)>>
        ELSE ~Issued("clean")

C4_Witness ==
    /\ op = "terminate" /\ pc = "done"
    /\ termination = Returned(TRUE, "sigkill")
    /\ CallsOf("clean") = <<Call("clean", proj)>>

\* C5: when findByProjectPath returns no process, the terminate use case
\* returns {terminated: false, 'No Unity process is running...'} as a value,
\* terminate was not called, and no signal or cleanup was issued.
C5_NothingToStop ==
    (op = "terminate" /\ pc = "done" /\ query # "error" /\ found = NoPid) =>
        /\ result = Result(FALSE, MsgNoProcess)
        /\ termination = NoTermination
        /\ trace = <<>>
        /\ goneAtStart = "unset"

C5_Witness ==
    /\ TerminateReturned /\ found = NoPid /\ result = Result(FALSE, MsgNoProcess)


\* the first stage terminate attempts on the platform
EarliestStage == IF platform = "darwin" THEN "graceful" ELSE "sigterm"

AllPollsAliveBeforeKill ==
    /\ polls["graceful"] \in {"none", "alive"}
    /\ polls["sigterm"] = "alive"

\* C6 as claimed: a pid already gone when terminate is called gives
\* terminated: true with the earliest stage attempted, and no action of a
\* later stage is ever issued.
C6_Original ==
    (goneAtStart = "gone") =>
        /\ (termination.state # "none" => termination = Returned(TRUE, EarliestStage))
        /\ ~Issued("sigkill")
        /\ (EarliestStage = "graceful" => ~Issued("sigterm"))

\* C6 amended: a pid already gone when terminate is called gives
\* terminated: true with the earliest stage attempted; the forced kill is never
\* issued and no wait of a later stage is entered; where the cooperative quit
\* is attempted, the one later-stage action that may be issued is a single
\* gentle terminate signal, answered 'no such process'.
C6_GoneAtStart ==
    (goneAtStart = "gone") =>
        /\ (termination.state # "none" => termination = Returned(TRUE, EarliestStage))
        /\ ~Issued("sigkill")
        /\ polls["sigkill"] = "none"
        /\ (EarliestStage = "graceful" =>
                /\ polls["sigterm"] = "none"
                /\ Len(CallsOf("sigterm")) <= 1
                /\ sent["sigterm"] \in {"none", "ESRCH"})

C6_Witness ==
    /\ goneAtStart = "gone"
    /\ platform = "darwin"
    /\ termination = Returned(TRUE, "graceful")
    /\ Issued("sigterm")

\* C7: when every poll of the Graceful and Forceful stages found the process
\* alive and the process is missing when the forced kill is sent or at the
\* probe after it, terminate returns {terminated: true, stage: 'sigkill'}.
C7_DiesInKillStage ==
    (AllPollsAliveBeforeKill /\ (sent["sigkill"] = "ESRCH" \/ polls["sigkill"] = "dead")) =>
        termination = Returned(TRUE, "sigkill")

C7_Witness ==
    /\ AllPollsAliveBeforeKill
    /\ sent["sigkill"] = "ok"
    /\ polls["sigkill"] = "dead"
    /\ termination = Returned(TRUE, "sigkill")

\* C8: when every probe of every stage, the one after the forced kill
\* included, found the process alive, terminate returns {terminated: false}
\* without a stage, and the use case returns terminated: false with the
\* 'Failed to terminate' message and never calls the cleaner.
C8_SurvivesAllStages ==
    (AllPollsAliveBeforeKill /\ polls["sigkill"] = "alive") =>
        /\ termination = Returned(FALSE, "none")
        /\ pc # "uc_clean"
        /\ ~Issued("clean")
        /\ result \in {NoResult, Result(FALSE, MsgFailed)}
        /\ (pc = "done" => result = Result(FALSE, MsgFailed))

C8_Witness ==
    /\ AllPollsAliveBeforeKill /\ polls["sigkill"] = "alive"
    /\ op = "terminate" /\ pc = "done"
    /\ result = Result(FALSE, MsgFailed)

\* ------------------------------------------------ termination under fairness
\* Only terminate runs; the event loop keeps running the operation in flight
\* (timers fire, external commands return).
\* the process tables terminate is started on here: any process as pid 1, and
\* the other pids free or running the editor of the other project
MainOfB == Cmd("unity", FALSE, FALSE, "dq", [dir |-> "B", upper |-> TRUE, slash |-> TRUE])

LiveInit ==
    /\ Init
    /\ temp = [d \in Dirs |-> TRUE]
    /\ lock = [d \in Dirs |-> FALSE]
    /\ \A pid \in Pids \ {1} : ptable[pid] \in {NoProc, MainOfB}

LiveNext ==
    \/ TerminateStart
    \/ TerminateStep
    \/ ProcExit
    \/ Finish

LiveSpec == LiveInit /\ [][LiveNext]_vars /\ WF_vars(TerminateStep)

\* Only launches run. The process tables they start on: pid 1 free, or
\* running an editor or a batch-mode worker of project A, and the other pids
\* free.
LaunchInit ==
    /\ Init
    /\ foreign = {}
    /\ temp = [d \in Dirs |-> TRUE]
    /\ ptable[1] \in {NoProc,
                       Cmd("unity", FALSE, FALSE, "bare", PlainPath("A")),
                       Cmd("unity", TRUE, TRUE, "bare", PlainPath("A"))}
    /\ \A pid \in Pids \ {1} : ptable[pid] = NoProc

LaunchNext ==
    \/ LaunchStart
    \/ CheckStep
    \/ LaunchStep
    \/ ProcExit
    \/ Finish

LaunchSpec == LaunchInit /\ [][LaunchNext]_vars

InTerminate ==
    pc \in {"m_quit", "m_gwait", "m_sigterm", "m_twait", "m_sigkill", "m_kwait",
            "w_stop", "w_twait", "w_force", "w_kwait"}

InStageWait == pc \in {"m_gwait", "m_twait", "w_twait"}

TerminatedOrFailed ==
    \/ termination = Returned(FALSE, "none")
    \/ \E s \in Stages : termination = Returned(TRUE, s)

C10_FailedQueryRaises ==
    (query \in {"error", "garbled"}) =>
        /\ decision # "allow"
        /\ result # Result(FALSE, MsgNoProcess)
        /\ (pc = "done" /\ op = "check" => decision = "raised")
        /\ (pc = "done" /\ op = "terminate" => result = ResultRaised)

\* ------------------------------------------------------------------ launch
LaunchOver == op = "launch" /\ pc = "done" /\ launch # "check"
NoLaterStep ==
    /\ ~Issued("resolve")
    /\ ~Issued("readCliArgs")
    /\ ~Issued("spawn")
    /\ ~Issued("updateLastModified")
    /\ spawnCall = NoSpawn

\* C11: when the admission check of a launch answers 'skip', execute ends with
\* LaunchCancelledError and none of the later steps has run (no resolution of
\* the editor path, no spawn, no timestamp write); and a spawn is only ever
\* issued after the check of the same execute call answered 'allow'.
C11_SkipCancelsLaunch ==
    op = "launch" =>
        /\ (launch # "check" /\ decision = "skip") => (launch = "cancelled" /\ NoLaterStep)
        /\ launch = "cancelled" => decision = "skip"
        /\ Issued("spawn") => decision = "allow"

C11_Witness == LaunchOver /\ decision = "skip" /\ launch = "cancelled"

\* position of the first call of that name in the trace, 0 when there is none
FirstCall(name) ==
    IF Issued(name) THEN CHOOSE i \in 1..Len(trace) :
                            /\ trace[i].call = name
                            /\ \A j \in 1..(i - 1) : trace[j].call # name
    ELSE 0

\* C12: updateLastModified is called only after the launcher acknowledged the
\* spawn of this launch: never when the admission check answered 'skip', when
\* the editor was not resolved, or when spawn() reported an error.
C12_TimestampAfterSpawnAck ==
    (op = "launch" /\ Issued("updateLastModified")) =>
        /\ decision = "allow"
        /\ resolved.state = "ok"
        /\ spawnCall.pid # NoPid
        /\ FirstCall("spawn") > 0
        /\ FirstCall("spawn") < FirstCall("updateLastModified")

C12_Witness ==
    LaunchOver /\ Issued("updateLastModified") /\ spawnCall.pid \in Pids

\* C13: every spawn of a launch is detached, and its arguments are
\* '-projectPath', the project path, then the extra arguments of the project
\* in their order, whatever that list is.
C13_SpawnArguments ==
    (op = "launch" /\ Issued("spawn")) =>
        /\ spawnCall.detached
        /\ Len(spawnCall.args) = 2 + Len(extraArgs)
        /\ spawnCall.args[1] = Arg("-projectPath")
        /\ spawnCall.args[2] = PathArg(proj)
        /\ \A i \in 1..Len(extraArgs) : spawnCall.args[2 + i] = extraArgs[i]

C13_Witness ==
    /\ op = "launch"
    /\ Issued("spawn")
    /\ Len(extraArgs) = 2
    /\ extraArgs[1] # extraArgs[2]

\* C14: when the editor is installed at none of the known roots, resolve fails
\* with a message that names every path it probed, at least one.
C14_ErrorNamesEveryPath ==
    (op = "launch" /\ resolved.state = "error") =>
        /\ Len(resolved.named) >= 1
        /\ \A i \in 1..Len(resolved.probed) :
            \E j \in 1..Len(resolved.named) : resolved.named[j] = resolved.probed[i]

\* ------------------------------------------------------------ cleaner safety
\* pid runs an interactive editor (not a batch-mode or worker process) on
\* project path p
EditorOf(pid, p) ==
    /\ Alive(pid)
    /\ ptable[pid].exe = "unity"
    /\ ~ptable[pid].batch
    /\ ~ptable[pid].worker
    /\ ptable[pid].quote # "absent"
    /\ ArePathsEqual(ptable[pid].path, p)

\* C15: with one operation at a time, a process listing that was read
\* correctly and no second editor on the project, no editor of the project is
\* alive at the moment check or the terminate use case calls clean on it.
C15_CleanOnlyWithoutEditor ==
    (/\ pc \in {"chk_clean", "uc_clean"}
     /\ query = "ok"
     /\ \A pid \in Pids \ {found} : ~EditorOf(pid, proj))
    => ~\E pid \in Pids : EditorOf(pid, proj)

\* ----------------------------------------------------------------- the UI
\* Only the list UI runs: keys arrive and the awaited use cases settle.
TuiInit ==
    /\ Init
    /\ platform = "darwin"
    /\ foreign = {}
    /\ ptable = [pid \in Pids |-> NoProc]
    /\ temp = [d \in Dirs |-> FALSE]
    /\ lock = [d \in Dirs |-> FALSE]

TuiNext ==
    \/ UiInput
    \/ UiSettle

TuiSpec == TuiInit /\ [][TuiNext]_vars

\* calls of the lifecycle callbacks on project d that have not settled yet
InFlight(d) ==
    uiOps[<<"launchSelected", d>>] + uiOps[<<"launchSelectedWithEditor", d>>]
        + uiOps[<<"terminateSelected", d>>]

\* C16: in the list UI at most one lifecycle operation (launch, launch with
\* editor, terminate) on a project is in flight at any time.
C16_OneOperationPerProject == \A d \in Dirs : InFlight(d) <= 1

\* --------------------------------------------------- one editor per project
\* C17: while an editor that an earlier launch spawned for the project is
\* alive and the listing of a later launch was read correctly, that later
\* launch is cancelled and spawns nothing; so right after a launch has spawned
\* there is only one live editor of the project that the launcher spawned.
C17_NoSecondEditor ==
    (op = "launch" /\ launch # "check" /\ query = "ok") =>
        /\ (\E pid \in spawned \ {spawnCall.pid} : EditorOf(pid, proj))
            => (launch = "cancelled" /\ spawnCall = NoSpawn)
        /\ spawnCall.pid # NoPid
            => Cardinality({pid \in spawned : EditorOf(pid, proj)}) <= 1

C17_Witness ==
    /\ LaunchOver
    /\ launch = "cancelled"
    /\ query = "ok"
    /\ found \in spawned
    /\ EditorOf(found, proj)

\* ------------------------------------------------------------ crash recovery
\* C18: when check took the crash branch and both deletions went through,
\* neither Temp nor the lock marker of the project exists and its derived
\* status is 'idle'; a check of the same project that follows at once and
\* finds no process returns 'allow' without calling the cleaner.
C18_CrashRecoveryLeavesIdle ==
    /\ (CheckReturned /\ CrashRecovered) =>
        /\ ~temp[proj.dir]
        /\ ~lock[proj.dir]
        /\ determineLaunchStatus(FALSE, isLocked(proj)) = "idle"
    /\ (CheckReturned /\ prior = proj.dir /\ found = NoPid) =>
        /\ decision = "allow"
        /\ hasLockfile = "no"
        /\ ~Issued("clean")
        /\ ~Issued("rmLock")

C18_Witness ==
    /\ CheckReturned
    /\ prior = proj.dir
    /\ found = NoPid
    /\ decision = "allow"

\* ------------------------------------------------------------ launch status
\* C20: each listed project is 'running' when the lookup found a process for
\* it, 'crashed' when it found none and the lock marker exists, 'idle'
\* otherwise; a process found wins over the lock marker.
C20_LaunchStatus ==
    (op = "list" /\ pc = "done") =>
        \A d \in Dirs :
            /\ views[d].found # NoPid => views[d].launchStatus = "running"
            /\ (views[d].found = NoPid /\ lock[d]) => views[d].launchStatus = "crashed"
            /\ (views[d].found = NoPid /\ ~lock[d]) => views[d].launchStatus = "idle"

C20_Witness ==
    /\ op = "list"
    /\ pc = "done"
    /\ \E d \in Dirs : views[d].found # NoPid /\ lock[d] /\ views[d].launchStatus = "running"
    /\ \E d \in Dirs : views[d].found = NoPid /\ views[d].launchStatus = "crashed"

\* ---------------------------------------------------------------- the cleaner
\* Only the cleaner runs, called again and again on either project.
CleanSpec == Init /\ [][CleanerCall]_vars

\* the Temp directory and marker one call of clean can leave, started on s
AfterOneCall(s) == {<<o.temp, o.lock>> : o \in RmOutcomes(s[1], s[2])}

\* C19: clean never rejects, whatever rm did; called on a project without a
\* Temp directory it changes nothing; and calls in a row leave what one call
\* can leave: nothing when the deletion went through, and otherwise a state a
\* single call from the same start could have left.
C19_CleanNeverThrowsIdempotent ==
    cleaner.calls >= 1 =>
        LET d == cleaner.dir
            here == <<temp[d], lock[d]>>
        IN  /\ cleaner.result = "resolved"
            /\ ~cleaner.before[1] => (here = cleaner.before /\ ~cleaner.failed)
            /\ ~cleaner.failed => here = <<FALSE, FALSE>>
            /\ here \in AfterOneCall(cleaner.start)

C19_Witness ==
    /\ cleaner.calls = 2
    /\ cleaner.start[1]
    /\ cleaner.result = "resolved"
    /\ ~cleaner.before[1]

\* ------------------------------------------------------------- readCliArgs
\* Only readCliArgs runs: one call, on any settings source.
QuietInit ==
    /\ Init
    /\ platform = "win32"
    /\ foreign = {}
    /\ ptable = [pid \in Pids |-> NoProc]
    /\ temp = [d \in Dirs |-> FALSE]
    /\ lock = [d \in Dirs |-> FALSE]

ArgsSpec == QuietInit /\ [][ReadCliArgsCall]_vars

\* the settings source cannot be read, cannot be parsed, or holds no
\* extra-args entry for the project
NoExtraArgsEntry(src) ==
    src.kind \in {"unreadable", "invalid", "null", "noEntry", "noCliArgs"}
        \/ (src.kind = "string" /\ src.text = <<>>)

\* C21: readCliArgs returns the empty list, without raising, whenever the
\* settings source cannot be read or parsed or has no extra-args entry for the
\* project.
C21_EmptyOnAnyFailure ==
    (cli.state # "none" /\ NoExtraArgsEntry(cli.src)) =>
        (cli.state = "returned" /\ cli.args = <<>>)

Contents(ws) == [i \in 1..Len(ws) |-> ws[i].content]

\* C22: a cliArgs string that is a whitespace-separated sequence of words,
\* each bare or wholly enclosed in one pair of double or single quotes, is
\* tokenized into exactly those words, in order, without the enclosing quotes
\* and with the whitespace inside quotes kept.
C22_TokenizesWords ==
    cli.from.wellFormed => (cli.state = "returned" /\ cli.args = Contents(cli.from.words))

\* a double-quoted word holding a whitespace, then a single-quoted word
C22_Witness ==
    /\ cli.from.wellFormed
    /\ cli.state = "returned"
    /\ cli.from.words = <<[quote |-> "dq", content |-> <<"a", "sp">>],
                          [quote |-> "sq", content |-> <<"a">>]>>
    /\ cli.src.text = <<"dq", "a", "sp", "dq", "sp", "sq", "a", "sq">>
    /\ cli.args = <<(<<"a", "sp">>), (<<"a">>)>>

\* ------------------------------------------------------ auxiliary processes
\* C23: the process a lookup returned is never an auxiliary subprocess of the
\* editor (batch-mode or asset-import worker), on any platform; so no check
\* answers 'skip' because of one and no terminate signals one.
C23_NeverAuxiliary ==
    (found # NoPid /\ Alive(found)) => ~IsUnityAuxiliaryProcess(ptable[found])

\* ------------------------------------------------------ stages of terminate
\* the action or the last poll of stage s found the process gone
GoneSeenIn(s) ==
    \/ polls[s] = "dead"
    \/ s \in {"sigterm", "sigkill"} /\ sent[s] = "ESRCH"

\* the actions of the stages after s
LaterActions(s) ==
    IF s = "graceful" THEN {"sigterm", "sigkill"}
    ELSE IF s = "sigterm" THEN {"sigkill"}
    ELSE {}

\* C26 as claimed: when the action or a poll of a stage finds the process
\* gone, terminate has returned terminated: true with that stage, and no
\* action of a later stage has been issued.
C26_Original ==
    \A s \in Stages :
        GoneSeenIn(s) =>
            /\ termination = Returned(TRUE, s)
            /\ \A a \in LaterActions(s) : ~Issued(a)

\* the stage terminate records for an exit seen in stage s: a gentle
\* terminate signal answered 'no such process' after an attempted cooperative
\* quit is put down to the quit
RecordedFor(s) ==
    IF s = "sigterm" /\ sent["sigterm"] = "ESRCH" /\ attemptedGraceful THEN "graceful"
    ELSE s

\* C26 amended: when the action or a poll of a stage finds the process gone,
\* terminate returns at once, no action and no poll of a later stage follows,
\* and the recorded stage is the stage of the observation, except that a
\* gentle terminate signal answered 'no such process' after an attempted
\* cooperative quit is recorded as 'graceful'.
C26_ExitShortCircuits ==
    \A s \in Stages :
        GoneSeenIn(s) =>
            /\ termination = Returned(TRUE, RecordedFor(s))
            /\ \A a \in LaterActions(s) : ~Issued(a) /\ polls[a] = "none"

\* the editor exits during the wait after the gentle terminate signal, the
\* cooperative quit having been tried first
C26_Witness ==
    /\ attemptedGraceful
    /\ polls["graceful"] = "alive"
    /\ sent["sigterm"] = "ok"
    /\ polls["sigterm"] = "dead"
    /\ termination = Returned(TRUE, "sigterm")
    /\ ~Issued("sigkill")

\* the stage actions issued so far, in order
StageActions == SelectSeq(trace, LAMBDA c : c.call \in {"quit", "sigterm", "sigkill"})
StageOrder == <<"quit", "sigterm", "sigkill">>
RankOf(name) == CHOOSE i \in 1..3 : StageOrder[i] = name

\* C27: the stage actions are issued in the order cooperative quit, gentle
\* terminate, forced kill, each at most once; the forced kill is issued only
\* after the gentle terminate was issued and the process was alive at every
\* poll of the wait that followed it.
C27_StageOrder ==
    /\ \A i, j \in 1..Len(StageActions) :
            i < j => RankOf(StageActions[i].call) < RankOf(StageActions[j].call)
    /\ Issued("sigkill") =>
            /\ Issued("sigterm")
            /\ polls["sigterm"] = "alive"

C27_Witness ==
    /\ [i \in 1..Len(StageActions) |-> StageActions[i].call] = StageOrder
    /\ polls["sigterm"] = "alive"
    /\ termination.state = "returned"

\* C28: where there is no cooperative quit (every platform but darwin) no
\* graceful action is attempted and the recorded stage is never 'graceful';
\* where it is attempted, an error of the quit command or of a poll of its
\* wait is swallowed and the terminator goes on to send the gentle terminate
\* signal.
C28_GracefulIsConditional ==
    /\ platform # "darwin" =>
            /\ ~Issued("quit")
            /\ ~attemptedGraceful
            /\ polls["graceful"] = "none"
            /\ termination.stage # "graceful"
    /\ (sent["quit"] = "failed" \/ polls["graceful"] = "throw") =>
            /\ pc = "m_sigterm" \/ Issued("sigterm")
            /\ pc = "m_sigterm" => termination.state = "none"

\* the quit command went through, a poll of its wait raised, and the gentle
\* terminate signal was sent all the same
C28_Witness ==
    /\ platform = "darwin"
    /\ sent["quit"] = "ok"
    /\ polls["graceful"] = "throw"
    /\ Issued("sigterm")

\* C29: a value returned by terminate carries a stage exactly when
\* terminated is true, and the stage is then one of graceful, sigterm, sigkill.
C29_StageIffTerminated ==
    termination.state = "returned" =>
        /\ termination.terminated <=> termination.stage # "none"
        /\ termination.terminated => termination.stage \in Stages

\* a failed termination, returned by the probe after the forced stop
C29_Witness ==
    /\ platform = "win32"
    /\ termination.state = "returned"
    /\ ~termination.terminated
    /\ termination.stage = "none"
    /\ polls["sigkill"] = "alive"
    /\ sent["sigkill"] = "ok"

\* --------------------------------------------------- best-effort side steps
\* C30: a failure of a best-effort side step neither changes the result of
\* the operation nor reaches its caller: check answers 'skip' although
\* bringing the window to the front failed, 'allow' in the crash branch
\* although the Temp clean or the marker removal failed, and the terminate use
\* case answers terminated: true although the Temp clean failed.
C30_BestEffortNeverFails ==
    /\ (op = "check" /\ "front" \in errlog) => decision = "skip"
    /\ (op = "check" /\ ("clean" \in swallowed \/ "rmLock" \in errlog)) =>
            /\ decision \in {"none", "allow"}
            /\ pc = "done" => decision = "allow"
    /\ (op = "terminate" /\ "clean" \in swallowed) => result = Result(TRUE, "none")

\* the crash branch with both deletions failing
C30_Witness ==
    /\ op = "check"
    /\ pc = "done"
    /\ "clean" \in swallowed
    /\ "rmLock" \in errlog
    /\ decision = "allow"
    /\ lock[proj.dir]

\* -------------------------------------------------- launch with the editor
\* Only launches with the external editor run, on darwin; project B has no
\* lock marker left behind.
WithEditorInit ==
    /\ LaunchInit
    /\ platform = "darwin"
    /\ ~lock["B"]

WithEditorNext ==
    \/ WithEditorStart
    \/ CheckStep
    \/ LaunchStep
    \/ WithEditorReturn
    \/ ProcExit
    \/ Finish

WithEditorSpec == WithEditorInit /\ [][WithEditorNext]_vars

\* the external editor did not come up: not configured, configured path not
\* found, or its launch threw
EditorFailed == editor.status # "found" \/ editor.threw

\* C24: LaunchWithEditorUseCase.execute attempts the Unity launch whatever
\* the external editor's outcome; an editor failure shows as editorLaunched:
\* false in the result and neither prevents nor fails the Unity launch.
C24_EditorNeverBlocksUnity ==
    editor.state # "none" =>
        /\ launch # "none"
        /\ editor.state = "returned" =>
                /\ editor.unityLaunched
                /\ launch = "done"
                /\ editor.editorLaunched <=> ~EditorFailed
        /\ editor.state = "raised" => launch \in {"raised", "cancelled"}
        /\ (pc = "idle" /\ launch = "done") => editor.state = "returned"

\* the editor's launch threw and Unity was spawned all the same
C24_Witness ==
    /\ editor.state = "returned"
    /\ editor.status = "found"
    /\ editor.threw
    /\ ~editor.editorLaunched
    /\ editor.unityLaunched
    /\ spawnCall.pid # NoPid

\* ---------------------------------------------------- isGitBashEnvironment
\* Only isGitBashEnvironment runs: one call, on any platform and environment.
GitBashInit ==
    /\ Init
    /\ foreign = {}
    /\ ptable = [pid \in Pids |-> NoProc]
    /\ temp = [d \in Dirs |-> FALSE]
    /\ lock = [d \in Dirs |-> FALSE]

GitBashSpec == GitBashInit /\ [][GitBashCall]_vars

\* C25: isGitBashEnvironment() answers true exactly when the platform is
\* win32 and MSYSTEM is set: false off Windows even with MSYSTEM, and false on
\* Windows for a SHELL containing 'bash' without MSYSTEM.
C25_GitBashOnlyByMsystem ==
    gitBash.called =>
        (gitBash.answer <=> (gitBash.platform = "win32" /\ Truthy(gitBash.MSYSTEM)))

\* ---------------------------------------------------- exit really observed
\* C31: terminate returns terminated: true only when the target process is
\* gone: only a 'no such process' answer counts as exit, and a probe or signal
\* refused for another reason is never reported as a termination.
C31_TerminatedMeansGone ==
    (termination.state = "returned" /\ termination.terminated) => ~Alive(found)

\* ------------------------------------------------ what makes a launch fail
\* C32: LaunchProjectUseCase.execute fails only when check answered 'skip',
\* the editor resolution failed or the spawn failed; once the spawn has been
\* acknowledged the launch is reported as successful, even if the write of the
\* last-used timestamp fails.
C32_SpawnAckMeansSuccess ==
    (spawnCall.pid # NoPid /\ launch # "run") => launch = "done"

\* ------------------------------------------------------------- the listing
\* Only execute() of the list use case runs: one call, on any registry, with
\* at most one process running.
ListInit ==
    /\ Init
    /\ foreign = {}
    /\ temp = [d \in Dirs |-> TRUE]
    /\ \A pid \in Pids \ {1} : ptable[pid] = NoProc

ListSpec == ListInit /\ [][ListProjectsCall]_vars

\* the process lookup of the i-th project was rejected
ProcessLookupFailed(i) ==
    findByProjectPath(RegistryPath(listing.registry[i]), listing.query[i]).raised

\* C33: execute returns one view per registry project, in registry order, and
\* a failed lookup never makes it fail: a failed git lookup shows as no
\* repository and a failed process lookup as no running process, for that
\* project only; the lock lookup shows the marker.
C33_OneViewPerProject ==
    /\ listing.state = "raised" => (listing.query = <<>> /\ listing.git = <<>>)
    /\ listing.state = "returned" =>
        /\ Len(listing.views) = Len(listing.registry)
        /\ \A i \in 1..Len(listing.registry) :
            LET view == listing.views[i]
                p == RegistryPath(listing.registry[i])
            IN  /\ view.project = p
                /\ view.repository <=> listing.git[i] = "repository"
                /\ view.isLocked <=> lock[p.dir]
                /\ ProcessLookupFailed(i) =>
                        view.launchStatus = (IF lock[p.dir] THEN "crashed" ELSE "idle")
                /\ (listing.query[i] = "ok" /\ ~ProcessLookupFailed(i)) =>
                        (view.launchStatus = "running" <=>
                            findByProjectPath(p, "ok").pid # NoPid)

\* the lookups of the first project fail, the second is shown as running
C33_Witness ==
    /\ listing.state = "returned"
    /\ listing.registry = <<"B", "A">>
    /\ listing.git = <<"rejected", "repository">>
    /\ ProcessLookupFailed(1)
    /\ listing.views[1].launchStatus = "crashed"
    /\ ~listing.views[1].repository
    /\ listing.views[2].launchStatus = "running"
    /\ listing.views[2].repository

\* ------------------------------------------------ the list UI and its state
\* The App alone: it is mounted, keys arrive, the terminal is resized and the
\* use cases its callbacks await settle.
\* The list and its callbacks, over the registries of two projects, in a
\* terminal of 14 rows.
ListKeys == {"j", "k", "q", "i", "o", "O", "r", "c"}
TwoProjectLists == {l \in RegistryLists : \A i \in 1..Len(l) : l[i] # "C"}
SetsNext ==
    \/ AppMount(TwoProjectLists, {14}, BOOLEAN)
    \/ AppInput(ListKeys)
    \/ AppSettle(TwoProjectLists)
    \/ AppHintTimer

SetsSpec == QuietInit /\ [][SetsNext]_vars

RefreshesInFlight == Awaiting(app, {"refreshProjects"})

\* C34: while the list UI runs, no project id is both locally launched and
\* locally released; right after a successful launch its project is launched
\* and not released, right after a successful terminate it is released and
\* not launched, a failed or cancelled action has changed neither set, a
\* completed refresh has emptied both; and a row shows 'running' for a
\* launched id, 'idle' for a released one, the listed status otherwise.
C34_LaunchedReleasedDisjoint ==
    app.state = "mounted" =>
        /\ app.launched \cap app.released = {}
        /\ (app.last.kind \in LaunchKinds /\ app.last.outcome = "ok")
            => (app.last.id \in app.launched /\ app.last.id \notin app.released)
        /\ (app.last.kind = "terminateSelected" /\ app.last.outcome = "ok")
            => (app.last.id \in app.released /\ app.last.id \notin app.launched)
        /\ app.last.outcome \in {"cancelled", "failed"} => ~app.last.changed
        /\ (app.last.kind = "refreshProjects" /\ app.last.outcome = "ok")
            => (app.launched = {} /\ app.released = {})
        /\ \A id \in AppProjects :
            /\ id \in app.launched => displayStatus(app, id) = "running"
            /\ id \in app.released => displayStatus(app, id) = "idle"
            /\ id \notin app.launched \cup app.released
                => displayStatus(app, id) = ListedStatus(id)

\* a launch of A has just succeeded while B, terminated before, is released
C34_Witness ==
    /\ app.state = "mounted"
    /\ app.last.kind = "launchSelected" /\ app.last.outcome = "ok" /\ app.last.id = "A"
    /\ app.last.changed
    /\ app.launched = {"A"} /\ app.released = {"B"}

MenuKeys == {"escape", "j", "k", " ", "s", "v", "r"}
WindowLists == RegistryLists \cap {<<>>, <<"B", "A">>, <<"C", "B", "A">>}
WindowNext ==
    \/ AppMount(WindowLists, AppRows, {FALSE})
    \/ AppInput(MenuKeys)
    \/ AppResize
    \/ AppSettle(WindowLists)
    \/ AppHintTimer

WindowSpec == QuietInit /\ [][WindowNext]_vars

\* C36: right after a successful refresh, if the project selected before is
\* in the new list, the selected row of the sorted list is that project;
\* otherwise the selected index lies inside the new list.
C36_RefreshKeepsSelection ==
    (/\ app.last.kind = "refreshProjects" /\ app.last.outcome = "ok"
     /\ Len(app.projectViews) > 0)
    => IF findIndex(app.projectViews, app.last.prev) # -1
       THEN ProjectAt(Sorted(app), app.index) = app.last.prev
       ELSE app.index \in 0..(Len(app.projectViews) - 1)

\* C37: while the list UI shows a non-empty list, every render and effect
\* having run, the selected index is inside the list and the selected row is
\* inside the rendered window.
C37_SelectionInsideWindow ==
    (app.state = "mounted" /\ Len(app.projectViews) > 0) =>
        /\ app.index \in 0..(Len(app.projectViews) - 1)
        /\ StartIndex(app) <= app.index
        /\ app.index < StartIndex(app) + Limit(app)

\* ------------------------------------------------------- stored preferences
\* Only the preference hooks run: they save, and the saves read and write
\* config.json, which starts with the default preferences.
ConfigNext ==
    \/ ConfigSave
    \/ ConfigRead
    \/ ConfigWrite

ConfigSpec == QuietInit /\ [][ConfigNext]_vars

\* C38: right after a save of the sort preferences has written config.json
\* the stored visibility preferences are what they were before that write,
\* and right after a save of the visibility preferences the stored sort
\* preferences are.
C38_SavesKeepTheOtherPart ==
    /\ config.last.which = "sort" => config.file.visibility = config.last.before.visibility
    /\ config.last.which = "visibility" => config.file.sort = config.last.before.sort

\* --------------------------------------------------------- shell integration
\* Only the shell config file: the user writes it, adds lines to it, and
\* runs --shell-init on it.
ShellNext ==
    \/ ShellRcStart
    \/ ShellRcEdit
    \/ ShellInstall

ShellSpec == QuietInit /\ [][ShellNext]_vars

\* the marker-delimited blocks of content, from position from on
RECURSIVE BlocksFrom(_, _)
BlocksFrom(content, from) ==
    LET m == MarkerMatch(content, from)
    IN  IF ~m.found THEN 0 ELSE 1 + BlocksFrom(content, m.last + 1)

\* content without its blocks
Outside(content) == ReplaceAll(content, 1, <<>>)

====
